---- MODULE Spec2Model ----
(***************************************************************************)
(* Daikin DIII-Net gateway (firmware/esp32_d3net): the register codec      *)
(* (d3net_codec.c) and the gateway state machine (d3net_gateway.c:         *)
(* discovery, poll, throttle, prepare/commit write protocol).              *)
(*                                                                         *)
(* Conventions                                                             *)
(*  - a word array uint16_t w[n] is the sequence <<w[0], ..., w[n-1]>>;    *)
(*  - a C function that can reach read_fn/write_fn is an operator from a   *)
(*    machine record m = [gw, clock, calls] to the SET of its              *)
(*    possible results, one per answer of the adapter;                     *)
(*  - a float Celsius value is carried as an integer number of hundredths  *)
(*    of a degree (23.5 C is 2350);                                        *)
(*  - times are milliseconds; clock is esp_timer_get_time() / 1000.        *)
(*                                                                         *)
(* Specifications                                                          *)
(*  - Spec: the firmware's tasks (discovery, poll, error read, commands);  *)
(*  - SpecApi: a client of the gateway API calling prepare_write itself;   *)
(*  - SpecCodec: single calls of the codec functions on drawn arguments.   *)
(***************************************************************************)
EXTENDS Integers, Sequences, FiniteSets, TLC

\* ------------------------------------------------------------- constants
D3NET_MAX_UNITS == 64
D3NET_DEFAULT_POLL_INTERVAL_S == 10
D3NET_DEFAULT_THROTTLE_MS == 25
D3NET_DEFAULT_CACHE_WRITE_S == 35
D3NET_DEFAULT_CACHE_ERROR_S == 10

D3NET_ADDR_SYSTEM_STATUS == 0
D3NET_CNT_SYSTEM_STATUS == 9
D3NET_ADDR_UNIT_CAP == 1000
D3NET_CNT_UNIT_CAP == 3
D3NET_ADDR_UNIT_STATUS == 2000
D3NET_CNT_UNIT_STATUS == 6
D3NET_ADDR_UNIT_HOLDING == 2000
D3NET_CNT_UNIT_HOLDING == 3
D3NET_ADDR_UNIT_ERROR == 3600
D3NET_CNT_UNIT_ERROR == 2

D3NET_REG_INPUT == "input"
D3NET_REG_HOLDING == "holding"

ESP_OK == "ESP_OK"
ESP_ERR_INVALID_ARG == "ESP_ERR_INVALID_ARG"
ESP_ERR_NOT_FOUND == "ESP_ERR_NOT_FOUND"
ESP_ERR_TIMEOUT == "ESP_ERR_TIMEOUT"
ESP_ERR_INVALID_CRC == "ESP_ERR_INVALID_CRC"
ESP_FAIL == "ESP_FAIL"
ESP_ERR_INVALID_STATE == "ESP_ERR_INVALID_STATE"
ESP_ERR_INVALID_SIZE == "ESP_ERR_INVALID_SIZE"

\* ---------------------------------------------------------------- bounds
\* Gateway operations per behaviour.
MaxOps == 3
\* Wall-clock value (ms since boot) when the first operation may start.
BootMs == 1000
\* Duration (ms) of one read_fn / write_fn call on the modelled transport.
CallMs == 10

\* ----------------------------------------------------------------- codec
d3net_valid_bit(word_count, bit_pos) == (bit_pos \div 16) < word_count

d3net_bit_get(words, word_count, bit_pos) ==
    IF ~d3net_valid_bit(word_count, bit_pos) THEN FALSE
    ELSE LET word == words[(bit_pos \div 16) + 1]
             mask == 2 ^ (bit_pos % 16)
         IN  (word \div mask) % 2 = 1

\* A bit_set that reports a change even when the bit already had the value.
d3net_bit_set_always_dirty(words, word_count, bit_pos, value, dirty) ==
    IF ~d3net_valid_bit(word_count, bit_pos) THEN [words |-> words, dirty |-> dirty]
    ELSE LET idx == (bit_pos \div 16) + 1
             mask == 2 ^ (bit_pos % 16)
             current == (words[idx] \div mask) % 2 = 1
         IN  IF current = value THEN [words |-> words, dirty |-> TRUE]
             ELSE [words |-> [words EXCEPT ![idx] = IF value THEN @ + mask ELSE @ - mask],
                   dirty |-> TRUE]

\* The pair (words, *dirty) after d3net_bit_set.
d3net_bit_set(words, word_count, bit_pos, value, dirty) ==
    IF ~d3net_valid_bit(word_count, bit_pos) THEN [words |-> words, dirty |-> dirty]
    ELSE LET idx == (bit_pos \div 16) + 1
             mask == 2 ^ (bit_pos % 16)
             current == (words[idx] \div mask) % 2 = 1
         IN  IF current = value THEN [words |-> words, dirty |-> dirty]
             ELSE [words |-> [words EXCEPT ![idx] = IF value THEN @ + mask ELSE @ - mask],
                   dirty |-> TRUE]

\* (uint16_t)x: a bit position keeps the width of its type.
U16(x) == x % 65536

RECURSIVE d3net_uint_get_loop(_, _, _, _, _)
d3net_uint_get_loop(words, word_count, start, length, i) ==
    IF i >= length THEN 0
    ELSE (IF d3net_bit_get(words, word_count, U16(start + i)) THEN 2 ^ i ELSE 0)
         + d3net_uint_get_loop(words, word_count, start, length, i + 1)

d3net_uint_get(words, word_count, start, length) ==
    d3net_uint_get_loop(words, word_count, start, length, 0)

RECURSIVE d3net_uint_set_loop(_, _, _, _, _, _, _)
d3net_uint_set_loop(words, word_count, start, length, value, dirty, i) ==
    IF i >= length THEN [words |-> words, dirty |-> dirty]
    ELSE LET \* value & (1UL << i); values here stay below 2^31, so bit 31 is clear.
             bit == i < 31 /\ (value \div (2 ^ i)) % 2 = 1
             r == d3net_bit_set(words, word_count, U16(start + i), bit, dirty)
         IN  \* The test makes TLC evaluate r before the next iteration rather
             \* than leave sixteen pending calls nested inside one another.
             IF r.dirty \in BOOLEAN
             THEN d3net_uint_set_loop(r.words, word_count, start, length, value, r.dirty, i + 1)
             ELSE r

\* A uint_set whose value parameter is a uint16_t.
d3net_uint_set_sixteen(words, word_count, start, length, value, dirty) ==
    d3net_uint_set_loop(words, word_count, start, length, value % 65536, dirty, 0)

d3net_uint_set(words, word_count, start, length, value, dirty) ==
    d3net_uint_set_loop(words, word_count, start, length, value, dirty, 0)

d3net_sint_get(words, word_count, start, length) ==
    IF length < 2 THEN 0
    ELSE LET value == d3net_uint_get(words, word_count, start, length - 1)
         IN  IF d3net_bit_get(words, word_count, U16(start + length - 1))
             THEN -value ELSE value

\* A sint_set that stores the value in two's complement.
d3net_sint_set_twos_complement(words, word_count, start, length, value, dirty) ==
    IF length < 2 THEN [words |-> words, dirty |-> dirty]
    ELSE d3net_uint_set(words, word_count, start, length,
                        IF value < 0 THEN 2 ^ length + value ELSE value, dirty)

d3net_sint_set(words, word_count, start, length, value, dirty) ==
    IF length < 2 THEN [words |-> words, dirty |-> dirty]
    ELSE LET sign == value < 0
             mag == IF sign THEN -value ELSE value
             r == d3net_uint_set(words, word_count, start, length - 1, mag, dirty)
         IN  d3net_bit_set(r.words, word_count, U16(start + length - 1), sign, r.dirty)

\* llroundf(value_c * 10.0f): value_c in hundredths of a degree, the result in
\* tenths, halves rounded away from zero.
llroundf_x10(value_c) ==
    IF value_c < 0 THEN -((-value_c + 5) \div 10) ELSE (value_c + 5) \div 10

\* (float)x10 / 10.0f, in hundredths of a degree.
float_div10(x10) == x10 * 10

\* ------------------------------------------------- system status accessors
\* An error accessor that never reports an error.
d3net_system_unit_error_never(s, unit_index) == FALSE

d3net_system_unit_connected(s, unit_index) ==
    IF unit_index >= 64 THEN FALSE
    ELSE d3net_bit_get(s, D3NET_CNT_SYSTEM_STATUS, 16 + unit_index)

d3net_system_unit_error(s, unit_index) ==
    IF unit_index >= 64 THEN FALSE
    ELSE d3net_bit_get(s, D3NET_CNT_SYSTEM_STATUS, 80 + unit_index)

\* ------------------------------------------------------- status accessors
\* s is the status view's word array; the setters discard their local dirty.
d3net_status_power_get(s) == d3net_bit_get(s, D3NET_CNT_UNIT_STATUS, 0)

d3net_status_power_set(s, value) ==
    d3net_bit_set(s, D3NET_CNT_UNIT_STATUS, 0, value, FALSE).words

d3net_status_oper_mode_get(s) == d3net_uint_get(s, D3NET_CNT_UNIT_STATUS, 16, 4)

d3net_status_oper_mode_set(s, mode) ==
    d3net_uint_set(s, D3NET_CNT_UNIT_STATUS, 16, 4, mode, FALSE).words

d3net_status_fan_speed_get(s) == d3net_uint_get(s, D3NET_CNT_UNIT_STATUS, 12, 3)

d3net_status_fan_speed_set(s, speed) ==
    d3net_uint_set(s, D3NET_CNT_UNIT_STATUS, 12, 3, speed, FALSE).words

d3net_status_fan_dir_get(s) == d3net_uint_get(s, D3NET_CNT_UNIT_STATUS, 8, 3)

d3net_status_fan_dir_set(s, dir) ==
    d3net_uint_set(s, D3NET_CNT_UNIT_STATUS, 8, 3, dir, FALSE).words

d3net_status_temp_setpoint_get(s) ==
    float_div10(d3net_sint_get(s, D3NET_CNT_UNIT_STATUS, 32, 16))

d3net_status_temp_setpoint_set(s, value_c) ==
    d3net_sint_set(s, D3NET_CNT_UNIT_STATUS, 32, 16, llroundf_x10(value_c), FALSE).words

\* ------------------------------------------------------ holding accessors
\* h is a d3net_unit_holding_t: [words, dirty, last_read_ms, last_write_ms].
HoldingWith(h, r) == [h EXCEPT !.words = r.words, !.dirty = r.dirty]

d3net_holding_power_set(h, value) ==
    HoldingWith(h, d3net_bit_set(h.words, D3NET_CNT_UNIT_HOLDING, 0, value, h.dirty))

\* A mode setter that hands d3net_uint_set no dirty flag.
d3net_holding_oper_mode_set_silent(h, mode) ==
    [h EXCEPT !.words = d3net_uint_set(h.words, D3NET_CNT_UNIT_HOLDING, 16, 4, mode,
                                       h.dirty).words]

d3net_holding_oper_mode_set(h, mode) ==
    HoldingWith(h, d3net_uint_set(h.words, D3NET_CNT_UNIT_HOLDING, 16, 4, mode, h.dirty))

\* A setpoint setter that leaves the shadow as it was.
d3net_holding_temp_setpoint_set_skipped(h, value_c) == h

d3net_holding_temp_setpoint_set(h, value_c) ==
    HoldingWith(h, d3net_sint_set(h.words, D3NET_CNT_UNIT_HOLDING, 32, 16,
                                  llroundf_x10(value_c), h.dirty))

d3net_holding_fan_control_get(h) ==
    d3net_uint_get(h.words, D3NET_CNT_UNIT_HOLDING, 4, 4) = 6

\* A fan_control_set that writes the filter-reset field, bits 20..23.
d3net_holding_fan_control_set_at_filter(h, enabled) ==
    HoldingWith(h, d3net_uint_set(h.words, D3NET_CNT_UNIT_HOLDING, 20, 4,
                                  IF enabled THEN 6 ELSE 0, h.dirty))

d3net_holding_fan_control_set(h, enabled) ==
    HoldingWith(h, d3net_uint_set(h.words, D3NET_CNT_UNIT_HOLDING, 4, 4,
                                  IF enabled THEN 6 ELSE 0, h.dirty))

d3net_holding_fan_speed_set(h, speed) ==
    d3net_holding_fan_control_set(
        HoldingWith(h, d3net_uint_set(h.words, D3NET_CNT_UNIT_HOLDING, 12, 3, speed, h.dirty)),
        TRUE)

d3net_holding_fan_dir_set(h, dir) ==
    d3net_holding_fan_control_set(
        HoldingWith(h, d3net_uint_set(h.words, D3NET_CNT_UNIT_HOLDING, 8, 3, dir, h.dirty)),
        TRUE)

d3net_holding_filter_reset_get(h) ==
    d3net_uint_get(h.words, D3NET_CNT_UNIT_HOLDING, 20, 4) # 0

d3net_holding_filter_reset_set(h, value) ==
    HoldingWith(h, d3net_uint_set(h.words, D3NET_CNT_UNIT_HOLDING, 20, 4,
                                  IF value THEN 15 ELSE 0, h.dirty))

\* A mark_read that leaves the stamp as it was.
d3net_holding_mark_read_unstamped(h, now_ms) == h

d3net_holding_mark_read(h, now_ms) == [h EXCEPT !.last_read_ms = now_ms]

\* A mark_written that stamps the time and leaves dirty as it was.
d3net_holding_mark_written_keeps_dirty(h, now_ms) == [h EXCEPT !.last_write_ms = now_ms]

d3net_holding_mark_written(h, now_ms) ==
    [h EXCEPT !.last_write_ms = now_ms, !.dirty = FALSE]

\* a - b < limit on uint64_t: when a < b the difference wraps to at least
\* 2^64 - 2^32, which no limit of the gateway reaches.
U64DiffLess(a, b, limit) == IF a >= b THEN a - b < limit ELSE FALSE

d3net_holding_read_within(h, now_ms, sec) ==
    IF h.last_read_ms = 0 THEN FALSE
    ELSE U64DiffLess(now_ms, h.last_read_ms, sec * 1000)

\* A write_within that compares milliseconds with seconds.
d3net_holding_write_within_seconds(h, now_ms, sec) ==
    IF h.last_write_ms = 0 THEN FALSE
    ELSE U64DiffLess(now_ms, h.last_write_ms, sec)

d3net_holding_write_within(h, now_ms, sec) ==
    IF h.last_write_ms = 0 THEN FALSE
    ELSE U64DiffLess(now_ms, h.last_write_ms, sec * 1000)

\* A sync that leaves out the operating mode.
d3net_holding_sync_from_status_without_mode(h, s) ==
    LET h1 == d3net_holding_power_set(h, d3net_status_power_get(s))
        h2 == d3net_holding_fan_dir_set(h1, d3net_status_fan_dir_get(s))
        h3 == d3net_holding_fan_speed_set(h2, d3net_status_fan_speed_get(s))
    IN  d3net_holding_temp_setpoint_set(h3, d3net_status_temp_setpoint_get(s))

d3net_holding_sync_from_status(h, s) ==
    LET h1 == d3net_holding_power_set(h, d3net_status_power_get(s))
        h2 == d3net_holding_fan_dir_set(h1, d3net_status_fan_dir_get(s))
        h3 == d3net_holding_fan_speed_set(h2, d3net_status_fan_speed_get(s))
        h4 == d3net_holding_oper_mode_set(h3, d3net_status_oper_mode_get(s))
    IN  d3net_holding_temp_setpoint_set(h4, d3net_status_temp_setpoint_get(s))

\* ------------------------------------------------------------ the adapter
\* Word arrays the adapter answers with.  System status: unit 0 connected and
\* in error (the scenario of the specification); units 0 and 1 connected with
\* unit 63 connected and in error.
SystemStatusReplies ==
    { <<3, 1, 0, 0, 0, 1, 0, 0, 0>>,
      <<1, 3, 0, 0, 32768, 0, 0, 0, 32768>> }

UnitCapReplies == { <<39967, 4128, 4128>> }

\* Off and idle; on, COOL, setpoint -5.5 C (sign bit and magnitude 55), room
\* 22.8 C.
UnitStatusReplies == { <<0, 0, 0, 0, 0, 0>>, <<1, 2, 32823, 0, 228, 0>> }

\* Fan control enabled and all else 0; the same with filter reset asserted.
UnitHoldingReplies == { <<96, 0, 0>>, <<96, 240, 0>> }

UnitErrorReplies == { <<0, 0>>, <<13633, 256>> }

\* Errors a failing read_fn and a failing write_fn return.
ReadErrors == { ESP_ERR_TIMEOUT }

WriteErrors == { ESP_ERR_INVALID_CRC }

Replies(reg_type, address, count) ==
    IF reg_type = D3NET_REG_HOLDING THEN UnitHoldingReplies
    ELSE IF count = D3NET_CNT_SYSTEM_STATUS THEN SystemStatusReplies
    ELSE IF count = D3NET_CNT_UNIT_CAP THEN UnitCapReplies
    ELSE IF count = D3NET_CNT_UNIT_STATUS THEN UnitStatusReplies
    ELSE UnitErrorReplies

\* gw->read_fn: the answers the adapter can give; a failed read leaves
\* out_words alone (modbus_rtu_read_registers writes them only on success).
read_fn(reg_type, address, count) ==
    { [err |-> ESP_OK, words |-> w] : w \in Replies(reg_type, address, count) }
    \cup { [err |-> e, words |-> <<>>] : e \in ReadErrors }

\* gw->write_fn.
write_fn(address, count, words) == { ESP_OK } \cup WriteErrors

\* ------------------------------------------------------------ the gateway
ZeroHolding ==
    [words |-> <<0, 0, 0>>, dirty |-> FALSE, last_read_ms |-> 0, last_write_ms |-> 0]

\* A d3net_unit_t after memset(unit, 0, sizeof(*unit)).
ZeroUnit ==
    [present |-> FALSE, index |-> 0, unit_id |-> <<>>, last_error_read_ms |-> 0,
     cap |-> <<0, 0, 0>>, status |-> <<0, 0, 0, 0, 0, 0>>,
     holding |-> ZeroHolding, error |-> <<0, 0>>]

UnitIndexes == 0 .. (D3NET_MAX_UNITS - 1)

\* The characters snprintf prints for a number below 10 under "%u".
Digit(n) == <<"0", "1", "2", "3", "4", "5", "6", "7", "8", "9">>[n + 1]

\* A unit id printed with "%u-%u": no leading zero.
d3net_make_unit_id_unpadded(index) ==
    LET group == (index \div 16) + 1
        num == index % 16
    IN  IF num < 10 THEN <<Digit(group), "-", Digit(num)>>
        ELSE <<Digit(group), "-", Digit(num \div 10), Digit(num % 10)>>

\* snprintf(out, 6, "%u-%02u", group, num): the string as its characters; the
\* group is 1..4 and the number 0..15, so the five characters that fit are
\* never exceeded.
d3net_make_unit_id(index) ==
    LET group == (index \div 16) + 1
        num == index % 16
    IN  <<Digit(group), "-", Digit(num \div 10), Digit(num % 10)>>

\* The gateway after d3net_gateway_init.
d3net_gateway_init ==
    [poll_interval_s |-> D3NET_DEFAULT_POLL_INTERVAL_S,
     throttle_ms |-> D3NET_DEFAULT_THROTTLE_MS,
     cache_write_s |-> D3NET_DEFAULT_CACHE_WRITE_S,
     cache_error_s |-> D3NET_DEFAULT_CACHE_ERROR_S,
     last_op_ms |-> 0,
     system_status |-> <<0, 0, 0, 0, 0, 0, 0, 0, 0>>,
     units |-> [i \in UnitIndexes |-> ZeroUnit],
     discovered_count |-> 0]

\* The record a transport call leaves in the log: what was called, the words
\* written or read, the result, the wall-clock time of the call, and for a
\* holding write the shadow's flags when d3net_holding_write_if_dirty returns.
\* m is the machine when d3net_read/d3net_write is entered and t the machine
\* after d3net_throttle: wait is the suspension, last the last_op_ms the
\* throttle saw, and dirty the flag of the shadow a holding call is about.
NoSnap == [dirty |-> TRUE, last_write_ms |-> -1]

CallEntry(fn, reg_type, address, count, words, err, m, t) ==
    [fn |-> fn, reg_type |-> reg_type, address |-> address, count |-> count,
     words |-> words, err |-> err, at |-> t.clock, after |-> NoSnap,
     wait |-> t.clock - m.clock, last |-> m.gw.last_op_ms,
     dirty |-> IF reg_type = D3NET_REG_HOLDING
               THEN m.gw.units[(address - D3NET_ADDR_UNIT_HOLDING)
                               \div D3NET_CNT_UNIT_HOLDING].holding.dirty
               ELSE FALSE]

\* The machine after d3net_throttle: vTaskDelay suspends the caller for wait_ms.
d3net_throttle(m, now_ms) ==
    IF m.gw.last_op_ms = 0 THEN m
    ELSE IF ~U64DiffLess(now_ms, m.gw.last_op_ms, m.gw.throttle_ms) THEN m
    ELSE LET wait_ms == m.gw.throttle_ms - (now_ms - m.gw.last_op_ms)
         IN  [m EXCEPT !.clock = @ + wait_ms]

d3net_read(m, reg_type, address, count, now_ms) ==
    LET t == d3net_throttle(m, now_ms)
    IN  { [m |-> [t EXCEPT !.calls = Append(@, CallEntry("read", reg_type, address, count,
                                                         a.words, a.err, m, t)),
                           !.clock = @ + CallMs,
                           !.gw.last_op_ms = now_ms],
           err |-> a.err, words |-> a.words] : a \in read_fn(reg_type, address, count) }

d3net_write(m, address, count, words, now_ms) ==
    LET t == d3net_throttle(m, now_ms)
    IN  { [m |-> [t EXCEPT !.calls = Append(@, CallEntry("write", D3NET_REG_HOLDING, address,
                                                         count, words, e, m, t)),
                           !.clock = @ + CallMs,
                           !.gw.last_op_ms = now_ms],
           err |-> e] : e \in write_fn(address, count, words) }

\* Results that carry no words.
Ret(m, err) == [m |-> m, err |-> err]

\* ---------------------------------------------------------------- discovery
\* The lowest index of a set of units: the loops below go in ascending order.
Min(S) == CHOOSE x \in S : \A y \in S : x <= y

RECURSIVE discover_loop_aborting(_, _, _)
\* A loop that gives up at the first unit whose capability or status read
\* fails (break where the code has continue).
discover_loop_aborting(m, todo, now_ms) ==
    IF todo = {} THEN { m }
    ELSE
    LET i == Min(todo)
        rest == todo \ { i }
    IN  UNION {
            IF c.err # ESP_OK THEN { c.m }
            ELSE LET m1 == [c.m EXCEPT !.gw.units[i].cap = c.words]
                 IN  UNION {
                     IF s.err # ESP_OK THEN { s.m }
                     ELSE discover_loop_aborting(
                              [s.m EXCEPT !.gw.units[i].status = s.words,
                                          !.gw.units[i].present = TRUE,
                                          !.gw.discovered_count = @ + 1],
                              rest, now_ms)
                     : s \in d3net_read(m1, D3NET_REG_INPUT, D3NET_ADDR_UNIT_STATUS
                                            + i * D3NET_CNT_UNIT_STATUS,
                                        D3NET_CNT_UNIT_STATUS, now_ms) }
            : c \in d3net_read(m, D3NET_REG_INPUT, D3NET_ADDR_UNIT_CAP + i * D3NET_CNT_UNIT_CAP,
                               D3NET_CNT_UNIT_CAP, now_ms) }

RECURSIVE discover_loop(_, _, _)
\* The loop body for the units that are connected and free of error, in
\* ascending index order; todo is the set of those still to visit.  The other
\* iterations only clear their own unit, which d3net_gateway_discover_units
\* below does for all units before the first of these reads.
discover_loop(m, todo, now_ms) ==
    IF todo = {} THEN { m }
    ELSE
    LET i == Min(todo)
        rest == todo \ { i }
    IN  UNION {
            IF c.err # ESP_OK THEN discover_loop(c.m, rest, now_ms)
            ELSE LET m1 == [c.m EXCEPT !.gw.units[i].cap = c.words]
                 IN  UNION {
                     IF s.err # ESP_OK THEN discover_loop(s.m, rest, now_ms)
                     ELSE discover_loop(
                              [s.m EXCEPT !.gw.units[i].status = s.words,
                                          !.gw.units[i].present = TRUE,
                                          !.gw.discovered_count = @ + 1],
                              rest, now_ms)
                     : s \in d3net_read(m1, D3NET_REG_INPUT, D3NET_ADDR_UNIT_STATUS
                                            + i * D3NET_CNT_UNIT_STATUS,
                                        D3NET_CNT_UNIT_STATUS, now_ms) }
            : c \in d3net_read(m, D3NET_REG_INPUT, D3NET_ADDR_UNIT_CAP + i * D3NET_CNT_UNIT_CAP,
                               D3NET_CNT_UNIT_CAP, now_ms) }

\* A discovery that leaves out "gw->discovered_count = 0".
d3net_gateway_discover_units_count_kept(m) ==
    LET now_ms == m.clock
    IN  UNION {
        IF r.err # ESP_OK THEN { Ret(r.m, r.err) }
        ELSE { Ret(d, ESP_OK) :
               d \in discover_loop(
                   [r.m EXCEPT
                       !.gw.system_status = r.words,
                       !.gw.units = [i \in UnitIndexes |->
                                       [ZeroUnit EXCEPT !.index = i,
                                                        !.unit_id = d3net_make_unit_id(i)]]],
                   { i \in UnitIndexes : /\ d3net_system_unit_connected(r.words, i)
                                         /\ ~d3net_system_unit_error(r.words, i) },
                   now_ms) }
        : r \in d3net_read(m, D3NET_REG_INPUT, D3NET_ADDR_SYSTEM_STATUS,
                           D3NET_CNT_SYSTEM_STATUS, now_ms) }

\* now_ms is esp_timer_get_time() / 1000 on entry: the machine's clock.
d3net_gateway_discover_units(m) ==
    LET now_ms == m.clock
    IN  UNION {
        IF r.err # ESP_OK THEN { Ret(r.m, r.err) }
        ELSE { Ret(d, ESP_OK) :
               d \in discover_loop(
                   [r.m EXCEPT
                       !.gw.system_status = r.words,
                       !.gw.discovered_count = 0,
                       !.gw.units = [i \in UnitIndexes |->
                                       [ZeroUnit EXCEPT !.index = i,
                                                        !.unit_id = d3net_make_unit_id(i)]]],
                   { i \in UnitIndexes : /\ d3net_system_unit_connected(r.words, i)
                                         /\ ~d3net_system_unit_error(r.words, i) },
                   now_ms) }
        : r \in d3net_read(m, D3NET_REG_INPUT, D3NET_ADDR_SYSTEM_STATUS,
                           D3NET_CNT_SYSTEM_STATUS, now_ms) }

\* --------------------------------------------------------------------- poll
RECURSIVE poll_loop_aborting(_, _, _)
\* A sweep that ends at the first status read that fails.
poll_loop_aborting(m, todo, now_ms) ==
    IF todo = {} THEN { m }
    ELSE LET i == Min(todo)
         IN  UNION {
                 IF r.err = ESP_OK
                 THEN poll_loop_aborting([r.m EXCEPT !.gw.units[i].status = r.words],
                                         todo \ { i }, now_ms)
                 ELSE { r.m }
                 : r \in d3net_read(m, D3NET_REG_INPUT,
                                    D3NET_ADDR_UNIT_STATUS + i * D3NET_CNT_UNIT_STATUS,
                                    D3NET_CNT_UNIT_STATUS, now_ms) }

RECURSIVE poll_loop(_, _, _)
\* The loop body for the present units outside their post-write window, in
\* ascending index order; the loop changes neither condition, so the set todo
\* of units to read is fixed when the sweep starts.
poll_loop(m, todo, now_ms) ==
    IF todo = {} THEN { m }
    ELSE LET i == Min(todo)
         IN  UNION {
                 poll_loop(IF r.err = ESP_OK
                           THEN [r.m EXCEPT !.gw.units[i].status = r.words]
                           ELSE r.m,
                           todo \ { i }, now_ms)
                 : r \in d3net_read(m, D3NET_REG_INPUT,
                                    D3NET_ADDR_UNIT_STATUS + i * D3NET_CNT_UNIT_STATUS,
                                    D3NET_CNT_UNIT_STATUS, now_ms) }

d3net_gateway_poll_status(m) ==
    LET now_ms == m.clock
    IN  { Ret(p, ESP_OK) :
          p \in poll_loop(m,
                          { i \in UnitIndexes :
                              /\ m.gw.units[i].present
                              /\ ~d3net_holding_write_within(m.gw.units[i].holding, now_ms,
                                                             m.gw.cache_write_s) },
                          now_ms) }

\* A read_error that stamps last_error_read_ms whatever the read returned.
d3net_gateway_read_error_stamping_failures(m, i, now_ms) ==
    LET unit == m.gw.units[i]
    IN  IF ~unit.present THEN { Ret(m, ESP_ERR_INVALID_ARG) }
        ELSE IF unit.last_error_read_ms # 0
                /\ U64DiffLess(now_ms, unit.last_error_read_ms, m.gw.cache_error_s * 1000)
        THEN { Ret(m, ESP_OK) }
        ELSE { IF r.err = ESP_OK
               THEN Ret([r.m EXCEPT !.gw.units[i].error = r.words,
                                    !.gw.units[i].last_error_read_ms = now_ms], ESP_OK)
               ELSE Ret([r.m EXCEPT !.gw.units[i].last_error_read_ms = now_ms], r.err)
               : r \in d3net_read(m, D3NET_REG_INPUT,
                                  D3NET_ADDR_UNIT_ERROR + unit.index * D3NET_CNT_UNIT_ERROR,
                                  D3NET_CNT_UNIT_ERROR, now_ms) }

\* The unit argument of the functions below is &gw->units[i].
d3net_gateway_read_error(m, i, now_ms) ==
    LET unit == m.gw.units[i]
    IN  IF ~unit.present THEN { Ret(m, ESP_ERR_INVALID_ARG) }
        ELSE IF unit.last_error_read_ms # 0
                /\ U64DiffLess(now_ms, unit.last_error_read_ms, m.gw.cache_error_s * 1000)
        THEN { Ret(m, ESP_OK) }
        ELSE { IF r.err = ESP_OK
               THEN Ret([r.m EXCEPT !.gw.units[i].error = r.words,
                                    !.gw.units[i].last_error_read_ms = now_ms], ESP_OK)
               ELSE Ret(r.m, r.err)
               : r \in d3net_read(m, D3NET_REG_INPUT,
                                  D3NET_ADDR_UNIT_ERROR + unit.index * D3NET_CNT_UNIT_ERROR,
                                  D3NET_CNT_UNIT_ERROR, now_ms) }

\* ----------------------------------------------------- prepare and commit
SetHolding(m, i, h) == [m EXCEPT !.gw.units[i].holding = h]

SetStatus(m, i, s) == [m EXCEPT !.gw.units[i].status = s]

d3net_holding_read(m, i, now_ms) ==
    LET unit == m.gw.units[i]
        holding_addr == D3NET_ADDR_UNIT_HOLDING + unit.index * D3NET_CNT_UNIT_HOLDING
    IN  { IF r.err = ESP_OK
          THEN Ret(SetHolding(r.m, i, d3net_holding_mark_read(
                                          [unit.holding EXCEPT !.words = r.words], now_ms)),
                   ESP_OK)
          ELSE Ret(r.m, r.err)
          : r \in d3net_read(m, D3NET_REG_HOLDING, holding_addr, D3NET_CNT_UNIT_HOLDING, now_ms) }

\* The last call's log entry with the shadow's flags as they are now.
Snap(m, i) ==
    [m EXCEPT !.calls[Len(m.calls)].after =
        [dirty |-> m.gw.units[i].holding.dirty,
         last_write_ms |-> m.gw.units[i].holding.last_write_ms]]

\* A write_if_dirty that marks the shadow written whatever write_fn returned.
d3net_holding_write_if_dirty_marking_failures(m, i, now_ms) ==
    LET unit == m.gw.units[i]
        holding_addr == D3NET_ADDR_UNIT_HOLDING + unit.index * D3NET_CNT_UNIT_HOLDING
    IN  IF ~unit.holding.dirty THEN { Ret(m, ESP_OK) }
        ELSE { Ret(Snap(SetHolding(r.m, i, d3net_holding_mark_written(unit.holding, now_ms)), i),
                   r.err)
               : r \in d3net_write(m, holding_addr, D3NET_CNT_UNIT_HOLDING,
                                   unit.holding.words, now_ms) }

d3net_holding_write_if_dirty(m, i, now_ms) ==
    LET unit == m.gw.units[i]
        holding_addr == D3NET_ADDR_UNIT_HOLDING + unit.index * D3NET_CNT_UNIT_HOLDING
    IN  IF ~unit.holding.dirty THEN { Ret(m, ESP_OK) }
        ELSE { IF r.err = ESP_OK
               THEN Ret(Snap(SetHolding(r.m, i, d3net_holding_mark_written(unit.holding, now_ms)),
                             i), ESP_OK)
               ELSE Ret(Snap(r.m, i), r.err)
               : r \in d3net_write(m, holding_addr, D3NET_CNT_UNIT_HOLDING,
                                   unit.holding.words, now_ms) }

\* A reload test that overlooks the dirty flag.
must_reload_holding_ignoring_dirty(m, i, now_ms) ==
    LET unit == m.gw.units[i]
    IN  unit.holding.last_read_ms = 0
        \/ (/\ ~d3net_holding_read_within(unit.holding, now_ms, m.gw.cache_write_s)
            /\ ~d3net_holding_write_within(unit.holding, now_ms, m.gw.cache_write_s))

must_reload_holding(m, i, now_ms) ==
    LET unit == m.gw.units[i]
    IN  unit.holding.last_read_ms = 0
        \/ (/\ ~unit.holding.dirty
            /\ ~d3net_holding_read_within(unit.holding, now_ms, m.gw.cache_write_s)
            /\ ~d3net_holding_write_within(unit.holding, now_ms, m.gw.cache_write_s))

d3net_unit_prepare_write(m, i, now_ms) ==
    LET unit == m.gw.units[i]
    IN  IF ~unit.present THEN { Ret(m, ESP_ERR_INVALID_ARG) }
        ELSE IF ~must_reload_holding(m, i, now_ms) THEN { Ret(m, ESP_OK) }
        ELSE UNION {
            IF r.err # ESP_OK THEN { r }
            ELSE LET u == r.m.gw.units[i]
                     m1 == SetHolding(r.m, i, d3net_holding_sync_from_status(u.holding, u.status))
                 IN  IF m1.gw.units[i].holding.dirty
                     THEN d3net_holding_write_if_dirty(m1, i, now_ms)
                     ELSE { Ret(m1, ESP_OK) }
            : r \in d3net_holding_read(m, i, now_ms) }

\* A commit that reads the holding registers again before it writes.
d3net_unit_commit_write_rereading(m, i, now_ms) ==
    LET unit == m.gw.units[i]
    IN  IF ~unit.present THEN { Ret(m, ESP_ERR_INVALID_ARG) }
        ELSE UNION {
            IF r.err # ESP_OK THEN { r }
            ELSE LET u == r.m.gw.units[i]
                 IN  d3net_holding_write_if_dirty(
                         SetHolding(r.m, i, d3net_holding_sync_from_status(u.holding, u.status)),
                         i, now_ms)
            : r \in d3net_holding_read(m, i, now_ms) }

\* A commit that goes on to the reset pulse's second write whatever the first
\* write returned.
d3net_unit_commit_write_ignoring_error(m, i, now_ms) ==
    LET unit == m.gw.units[i]
    IN  IF ~unit.present THEN { Ret(m, ESP_ERR_INVALID_ARG) }
        ELSE LET m1 == SetHolding(m, i, d3net_holding_sync_from_status(unit.holding, unit.status))
             IN  UNION {
                 LET h == w.m.gw.units[i].holding
                 IN  IF d3net_holding_filter_reset_get(h)
                     THEN d3net_holding_write_if_dirty(
                              SetHolding(w.m, i, d3net_holding_filter_reset_set(h, FALSE)),
                              i, now_ms)
                     ELSE { w }
                 : w \in d3net_holding_write_if_dirty(m1, i, now_ms) }

d3net_unit_commit_write(m, i, now_ms) ==
    LET unit == m.gw.units[i]
    IN  IF ~unit.present THEN { Ret(m, ESP_ERR_INVALID_ARG) }
        ELSE LET m1 == SetHolding(m, i, d3net_holding_sync_from_status(unit.holding, unit.status))
             IN  UNION {
                 IF w.err # ESP_OK THEN { w }
                 ELSE LET h == w.m.gw.units[i].holding
                      IN  IF d3net_holding_filter_reset_get(h)
                          THEN d3net_holding_write_if_dirty(
                                   SetHolding(w.m, i, d3net_holding_filter_reset_set(h, FALSE)),
                                   i, now_ms)
                          ELSE { w }
                 : w \in d3net_holding_write_if_dirty(m1, i, now_ms) }

\* ------------------------------------------------------------ operator API
d3net_unit_set_power(m, i, on, now_ms) ==
    UNION { IF p.err # ESP_OK THEN { p }
            ELSE d3net_unit_commit_write(
                     SetStatus(p.m, i, d3net_status_power_set(p.m.gw.units[i].status, on)),
                     i, now_ms)
            : p \in d3net_unit_prepare_write(m, i, now_ms) }

\* A set_mode that leaves out d3net_status_power_set(&unit->status, true).
d3net_unit_set_mode_keeps_power(m, i, mode, now_ms) ==
    UNION { IF p.err # ESP_OK THEN { p }
            ELSE d3net_unit_commit_write(
                     SetStatus(p.m, i, d3net_status_oper_mode_set(p.m.gw.units[i].status, mode)),
                     i, now_ms)
            : p \in d3net_unit_prepare_write(m, i, now_ms) }

d3net_unit_set_mode(m, i, mode, now_ms) ==
    UNION { IF p.err # ESP_OK THEN { p }
            ELSE d3net_unit_commit_write(
                     SetStatus(p.m, i, d3net_status_oper_mode_set(
                                           d3net_status_power_set(p.m.gw.units[i].status, TRUE),
                                           mode)),
                     i, now_ms)
            : p \in d3net_unit_prepare_write(m, i, now_ms) }

d3net_unit_set_setpoint(m, i, celsius, now_ms) ==
    UNION { IF p.err # ESP_OK THEN { p }
            ELSE d3net_unit_commit_write(
                     SetStatus(p.m, i, d3net_status_temp_setpoint_set(p.m.gw.units[i].status,
                                                                      celsius)),
                     i, now_ms)
            : p \in d3net_unit_prepare_write(m, i, now_ms) }

d3net_unit_set_fan_speed(m, i, speed, now_ms) ==
    UNION { IF p.err # ESP_OK THEN { p }
            ELSE d3net_unit_commit_write(
                     SetStatus(p.m, i, d3net_status_fan_speed_set(p.m.gw.units[i].status, speed)),
                     i, now_ms)
            : p \in d3net_unit_prepare_write(m, i, now_ms) }

d3net_unit_set_fan_dir(m, i, dir, now_ms) ==
    UNION { IF p.err # ESP_OK THEN { p }
            ELSE d3net_unit_commit_write(
                     SetStatus(p.m, i, d3net_status_fan_dir_set(p.m.gw.units[i].status, dir)),
                     i, now_ms)
            : p \in d3net_unit_prepare_write(m, i, now_ms) }

\* A filter reset that commits without asserting the field.
d3net_unit_filter_reset_without_assert(m, i, now_ms) ==
    UNION { IF p.err # ESP_OK THEN { p }
            ELSE d3net_unit_commit_write(p.m, i, now_ms)
            : p \in d3net_unit_prepare_write(m, i, now_ms) }

d3net_unit_filter_reset(m, i, now_ms) ==
    UNION { IF p.err # ESP_OK THEN { p }
            ELSE d3net_unit_commit_write(
                     SetHolding(p.m, i, d3net_holding_filter_reset_set(p.m.gw.units[i].holding,
                                                                       TRUE)),
                     i, now_ms)
            : p \in d3net_unit_prepare_write(m, i, now_ms) }

\* ------------------------------------------------------------ host surface
\* A JSON number is carried in hundredths; valueint truncates it.
valueint(val) == IF val < 0 THEN -((-val) \div 100) ELSE val \div 100

\* handle_hvac_cmd_post from the point where it holds gateway_lock.
handle_hvac_cmd(m, index, cmd, val) ==
    LET now_ms == m.clock
    IN  IF ~m.gw.units[index].present THEN { Ret(m, ESP_ERR_NOT_FOUND) }
        ELSE CASE cmd = "power" -> d3net_unit_set_power(m, index, val > 50, now_ms)
               [] cmd = "mode" -> d3net_unit_set_mode(m, index, valueint(val), now_ms)
               [] cmd = "setpoint" -> d3net_unit_set_setpoint(m, index, val, now_ms)
               [] cmd = "fan_speed" -> d3net_unit_set_fan_speed(m, index, valueint(val), now_ms)
               [] cmd = "fan_dir" -> d3net_unit_set_fan_dir(m, index, valueint(val), now_ms)
               [] cmd = "filter_reset" -> d3net_unit_filter_reset(m, index, now_ms)
               [] OTHER -> { Ret(m, ESP_ERR_INVALID_ARG) }

\* Requests of the host: power on/off, COOL, -5.46 C, fan speed HIGH, fan
\* direction SWING, filter reset.
CommandInputs ==
    { [cmd |-> "power", value |-> 100], [cmd |-> "power", value |-> 0],
      [cmd |-> "mode", value |-> 200],
      [cmd |-> "setpoint", value |-> -546],
      [cmd |-> "fan_speed", value |-> 500], [cmd |-> "fan_dir", value |-> 700],
      [cmd |-> "filter_reset", value |-> 0] }

\* Unit indexes the host asks for.
RequestIndexes == { 0 }

\* Time the gateway sits idle before an operation starts.
IdleSteps == { 0, D3NET_DEFAULT_CACHE_WRITE_S * 1000 }

\* ------------------------------------------------------------------- state
VARIABLES
    gw,         \* the d3net_gateway_t
    clock,      \* wall clock, ms since boot
    calls,      \* transport calls of the last operation, in order
    op,         \* the last operation: name, unit, value, now_ms, err
    pre,        \* the unit record the last operation started from
    nops,       \* operations so far
    first,      \* poll_task's flag: no discovery has succeeded yet
    prevCallAt, \* wall-clock time of the last transport call before op, or -1
    wrote,      \* per unit: now_ms of the last command that wrote it, 0 if none
    committed,  \* per unit: when its last successful command returned, -1 if none
    acked,      \* per unit: holding words last read from or written to the adapter
    staged,     \* per unit: a setter changed the shadow since the last such call
    cx,         \* a call of a codec function on its own: arguments and results
    gateway_lock, \* app->gateway_lock: the task that holds the mutex, or NoTask
    pc,         \* per task: where it stands relative to gateway_lock
    rtu,        \* a call of the RTU transport on its own: the call, the line, the pins
    store,      \* app->config, the NVS namespace "d3net", and the last save
    telnet      \* s_telnet's log ring and the calls of logf and get_logs under way

vars == <<gw, clock, calls, op, pre, nops, first, prevCallAt, wrote, committed, acked, staged,
          cx, gateway_lock, pc, rtu, store, telnet>>

\* The components that are also called on their own, and the configuration.
standalone == <<cx, rtu, store, telnet>>

\* The tasks app_main starts that use the gateway: poll_task, the HTTP server's
\* task, which runs the handlers one request at a time, and telnet_status_task.
Tasks == { "poll_task", "httpd", "telnet_status_task" }

NoTask == "none"

\* No codec call under way.
NoCodec == [fn |-> "none", stage |-> "none"]

\* No transport call under way.
NoRtu == [fn |-> "none", at |-> "none"]

ZeroRtuConfig ==
    [tx_pin |-> 0, rx_pin |-> 0, de_pin |-> 0, re_pin |-> 0, baud_rate |-> 0,
     data_bits |-> 0, stop_bits |-> 0, parity |-> 0, slave_id |-> 0, timeout_ms |-> 0]

\* An app_config_t after memset: registered_mask is held as the set of its
\* bits that are 1, a unit id as its characters.
ZeroConfig ==
    [sta_ssid |-> "", sta_password |-> "", sta_configured |-> FALSE,
     registered_mask |-> {}, registered_ids |-> [i \in 0 .. 63 |-> <<>>],
     rtu_cfg |-> ZeroRtuConfig]

\* The NVS namespace "d3net" before the first save.
EmptyNvs ==
    [exists |-> FALSE, sta_ssid |-> "", sta_pass |-> "", reg_mask |-> {},
     reg_ids |-> [i \in 0 .. 63 |-> <<>>]]

\* config_store_load
config_store_load(nvs) ==
    IF ~nvs.exists THEN ZeroConfig
    ELSE [ZeroConfig EXCEPT !.sta_ssid = nvs.sta_ssid,
                            !.sta_password = nvs.sta_pass,
                            !.sta_configured = nvs.sta_ssid # "",
                            !.registered_mask = nvs.reg_mask,
                            !.registered_ids = nvs.reg_ids]

\* The namespace after a config_store_save that returned ESP_OK.
nvs_written(nvs, cfg) ==
    [exists |-> TRUE, sta_ssid |-> cfg.sta_ssid, sta_pass |-> cfg.sta_password,
     reg_mask |-> cfg.registered_mask, reg_ids |-> cfg.registered_ids]

\* config_store_save: it writes its keys and commits, or nvs_open fails.
config_store_save(nvs, cfg) ==
    { [nvs |-> nvs_written(nvs, cfg), err |-> ESP_OK], [nvs |-> nvs, err |-> ESP_FAIL] }

\* A device that boots with nothing saved: app_main has loaded the
\* configuration.  saved is the configuration the last save wrote, and clean
\* tells that app->config has not been changed since without a save.
BootStore ==
    [config |-> config_store_load(EmptyNvs), nvs |-> EmptyNvs, saved |-> ZeroConfig,
     clean |-> FALSE, at |-> "loaded"]

\* The gateway after app_main has set it up.
\* sizeof(s_telnet.logs) / sizeof(s_telnet.logs[0])
LogSlots == 128

\* s_telnet's log ring as the static initialiser leaves it.
ZeroLogs ==
    [logs |-> [k \in 0 .. (LogSlots - 1) |-> [line |-> "", seq |-> 0]],
     log_head |-> 0, log_count |-> 0, log_seq |-> 0]

\* No call of telnet_server_logf or telnet_server_get_logs under way.
IdleLogf == [at |-> "idle", tmp |-> 0, slot |-> 0]

IdleGetLogs == [at |-> "idle", since |-> 0, i |-> 0, idx |-> 0, out |-> <<>>]

BootTelnet ==
    [s |-> ZeroLogs, logf |-> [t \in Tasks |-> IdleLogf], get |-> IdleGetLogs, ncalls |-> 0]

InitGateway ==
    /\ gw = d3net_gateway_init
    /\ clock = BootMs
    /\ calls = <<>>
    /\ op = [name |-> "init", unit |-> -1, cmd |-> "", value |-> 0, now_ms |-> 0, err |-> ESP_OK]
    /\ pre = ZeroUnit
    /\ nops = 0
    /\ first = TRUE
    /\ prevCallAt = -1
    /\ wrote = [i \in UnitIndexes |-> 0]
    /\ committed = [i \in UnitIndexes |-> -1]
    /\ acked = [i \in UnitIndexes |-> <<0, 0, 0>>]
    /\ staged = [i \in UnitIndexes |-> FALSE]

\* app_main creates gateway_lock free, before it starts any task.
InitTasks ==
    /\ gateway_lock = NoTask
    /\ pc = [t \in Tasks |-> "idle"]

Init ==
    InitGateway /\ cx = NoCodec /\ rtu = NoRtu /\ store = BootStore /\ InitTasks
    /\ telnet = BootTelnet

\* The machine an operation starts from, idle ms after the previous one ended.
Begin(idle) == [gw |-> gw, clock |-> clock + idle, calls |-> <<>>]

HoldingAddr(i) == D3NET_ADDR_UNIT_HOLDING + i * D3NET_CNT_UNIT_HOLDING

\* Positions in a call log of the successful holding calls at unit i's address.
HoldingOk(log, i) ==
    { k \in 1 .. Len(log) : /\ log[k].reg_type = D3NET_REG_HOLDING
                            /\ log[k].address = HoldingAddr(i)
                            /\ log[k].err = ESP_OK }

HoldingWriteOk(log, i) == { k \in HoldingOk(log, i) : log[k].fn = "write" }

Max(S) == CHOOSE x \in S : \A y \in S : y <= x

\* What an operation leaves behind: the gateway, the clock, its calls.
Outcome(name, unit, cmd, value, now_ms, m0, out) ==
    LET log == out.m.calls
        isCmd == name = "command"
        onUnit == unit >= 0
        reset == name = "discover" /\ out.err = ESP_OK
    IN  /\ gw' = out.m.gw
        /\ clock' = out.m.clock
        /\ calls' = log
        /\ op' = [name |-> name, unit |-> unit, cmd |-> cmd, value |-> value,
                  now_ms |-> now_ms, err |-> out.err]
        /\ pre' = IF unit >= 0 THEN m0.gw.units[unit] ELSE ZeroUnit
        /\ nops' = nops + 1
        /\ prevCallAt' = IF calls # <<>> THEN calls[Len(calls)].at ELSE prevCallAt
        /\ wrote' = IF reset THEN [i \in UnitIndexes |-> 0]
                    ELSE IF onUnit /\ HoldingWriteOk(log, unit) # {}
                    THEN [wrote EXCEPT ![unit] = now_ms]
                    ELSE wrote
        /\ committed' = IF isCmd /\ out.err = ESP_OK
                        THEN [committed EXCEPT ![unit] = out.m.clock]
                        ELSE committed
        /\ acked' = IF onUnit /\ HoldingOk(log, unit) # {}
                    THEN [acked EXCEPT ![unit] = log[Max(HoldingOk(log, unit))].words]
                    ELSE acked
        /\ staged' = IF reset THEN [i \in UnitIndexes |-> FALSE]
                     ELSE IF onUnit
                     THEN [staged EXCEPT ![unit] =
                              IF HoldingOk(log, unit) # {}
                              THEN out.m.gw.units[unit].holding.words
                                   # log[Max(HoldingOk(log, unit))].words
                              ELSE @ \/ out.m.gw.units[unit].holding.words
                                        # m0.gw.units[unit].holding.words]
                     ELSE staged

\* The bookkeeping every operation ends with, when the operation is taken as
\* one step from the take of gateway_lock to its give.
Finish(name, unit, cmd, value, now_ms, m0, out) ==
    /\ Outcome(name, unit, cmd, value, now_ms, m0, out)
    /\ first' = (first /\ ~(name = "discover" /\ out.err = ESP_OK))
    /\ UNCHANGED <<standalone, gateway_lock, pc>>

\* ----------------------------------------------------------------- actions
\* poll_task's first cycles, which start at boot, and handle_discover_post.
Discover ==
    /\ nops < MaxOps
    /\ \E idle \in (IF first THEN { 0 } ELSE IdleSteps) :
         \E out \in d3net_gateway_discover_units(Begin(idle)) :
            Finish("discover", -1, "", 0, clock + idle, Begin(idle), out)

\* poll_task's later cycles.
PollStatus ==
    /\ nops < MaxOps
    /\ ~first
    /\ \E idle \in IdleSteps :
         \E out \in d3net_gateway_poll_status(Begin(idle)) :
            Finish("poll", -1, "", 0, clock + idle, Begin(idle), out)

\* The host asks for a unit's error once the start-up discovery is through.
ReadError ==
    /\ nops < MaxOps
    /\ ~first
    /\ \E idle \in IdleSteps, i \in RequestIndexes :
         \E out \in d3net_gateway_read_error(Begin(idle), i, clock + idle) :
            Finish("read_error", i, "", 0, clock + idle, Begin(idle), out)

\* handle_hvac_cmd_post, once the start-up discovery is through.
Command ==
    /\ nops < MaxOps
    /\ ~first
    /\ \E idle \in IdleSteps, i \in RequestIndexes, c \in CommandInputs :
         \E out \in handle_hvac_cmd(Begin(idle), i, c.cmd, c.value) :
            Finish("command", i, c.cmd, c.value, clock + idle, Begin(idle), out)

Next == Discover \/ PollStatus \/ ReadError \/ Command

Spec == Init /\ [][Next]_vars

\* ------------------------------------------------- the library's own client
\* d3net_gateway.h exports prepare_write; its caller supplies now_ms, which is
\* the clock or 0 (a caller that has no time source yet).
CallerNow(idle) == { 0, clock + idle }

PrepareWrite ==
    /\ nops < MaxOps
    /\ ~first
    /\ \E idle \in IdleSteps, i \in RequestIndexes :
         \E now_ms \in CallerNow(idle) :
            \E out \in d3net_unit_prepare_write(Begin(idle), i, now_ms) :
               Finish("prepare_write", i, "", 0, now_ms, Begin(idle), out)

\* Two calls back to back with the same now_ms; the result is the second's.
PrepareWriteTwice ==
    /\ nops < MaxOps
    /\ ~first
    /\ \E idle \in IdleSteps, i \in RequestIndexes :
         \E now_ms \in CallerNow(idle) :
            \E out \in UNION { d3net_unit_prepare_write(p.m, i, now_ms)
                               : p \in d3net_unit_prepare_write(Begin(idle), i, now_ms) } :
               Finish("prepare_write_twice", i, "", 0, now_ms, Begin(idle), out)

NextApi == Discover \/ PrepareWrite \/ PrepareWriteTwice

SpecApi == Init /\ [][NextApi]_vars

\* ------------------------------------------------ the codec called directly
\* d3net_codec.h exports the bit-field functions and the view accessors; a
\* caller hands them any buffer.  A call is one step from stage "in", the
\* arguments, to stage "out", the arguments with the results.
CodecCall(fn, arg) == [fn |-> fn, stage |-> "in", arg |-> arg, res |-> <<>>]

\* Contents of a 9-word buffer: clear, all ones, and mixed.
Buffers ==
    { <<0, 0, 0, 0, 0, 0, 0, 0, 0>>,
      <<65535, 65535, 65535, 65535, 65535, 65535, 65535, 65535, 65535>>,
      <<4660, 43981, 255, 65280, 21845, 43690, 1, 32768, 61680>> }

\* The widest view, the system status.
BufferWords == D3NET_CNT_SYSTEM_STATUS

BufferBits == 16 * BufferWords

UintLengths == { 1, 4, 15, 16, 17, 31, 32 }

\* Fields inside one word, across one boundary and across two, and the last
\* field of the buffer.
UintStarts(length) ==
    { st \in { 0, 7, 15, 16, 30, BufferBits - length } : st + length <= BufferBits }

\* The largest value of a field that the model's integers hold.
MaxUint(length) == IF length >= 31 THEN 2147483647 ELSE 2 ^ length - 1

UintValues(length) ==
    { v \in { 0, 1, 5, 43690, 1431655765, 2 ^ (IF length > 30 THEN 30 ELSE length - 1),
              MaxUint(length) } : v <= MaxUint(length) }

UintInputs ==
    UNION { UNION { { CodecCall("uint", [words |-> w, start |-> st, length |-> n, value |-> v])
                      : w \in Buffers, v \in UintValues(n) }
                    : st \in UintStarts(n) }
            : n \in UintLengths }

SintLengths == { 0, 1, 2, 3, 16, 17 }

SintStarts(length) ==
    { st \in { 0, 10, 15, 32, BufferBits - length } : st + length <= BufferBits }

SintValues(length) ==
    IF length < 2 THEN { 0, 1, -1, 5 }
    ELSE { v \in { 0, 1, -1, 3, -3, 235, -55, 32767, -32767, 65535, -65535 } :
             -(2 ^ (length - 1)) < v /\ v < 2 ^ (length - 1) }

SintInputs ==
    UNION { UNION { { CodecCall("sint", [words |-> w, start |-> st, length |-> n, value |-> v])
                      : w \in Buffers, v \in SintValues(n) }
                    : st \in SintStarts(n) }
            : n \in SintLengths }

\* Holding shadows: clear; fan control enabled; that with filter reset
\* asserted; on, COOL, 23.5 C, fan fields set; setpoint negative zero; fan
\* control 5 and filter-reset field 5; all ones.
HoldingContents ==
    { <<0, 0, 0>>, <<96, 0, 0>>, <<96, 240, 0>>, <<4961, 2, 235>>, <<96, 0, 32768>>,
      <<80, 80, 0>>, <<65535, 65535, 65535>> }

\* Status views: off and idle; on, COOL, -5.5 C; on, COOL, 23.5 C with the
\* fan fields of the fourth shadow; setpoint negative zero; all ones.
StatusContents ==
    { <<0, 0, 0, 0, 0, 0>>, <<1, 2, 32823, 0, 228, 0>>, <<4865, 2, 235, 0, 228, 0>>,
      <<0, 0, 32768, 0, 0, 0>>, <<65535, 65535, 65535, 65535, 65535, 65535>> }

SyncInputs ==
    { CodecCall("sync", [h |-> [ZeroHolding EXCEPT !.words = w, !.dirty = d], s |-> st])
      : <<w, d, st>> \in HoldingContents \X BOOLEAN \X StatusContents }

\* The holding setters and, for each, values of its field's range: a bool as
\* 0 or 1, a setpoint in hundredths of a degree.
SetterValues ==
    [power |-> { 0, 1 }, oper_mode |-> { 0, 2, 5, 15 },
     temp_setpoint |-> { 0, 2350, -550, 327670, -327670 },
     fan_speed |-> { 0, 1, 5, 7 }, fan_dir |-> { 0, 1, 3, 7 }, filter_reset |-> { 0, 1 }]

SetterInputs ==
    UNION { { CodecCall("set", [setter |-> n, h |-> [ZeroHolding EXCEPT !.words = w, !.dirty = d],
                                value |-> v])
              : w \in HoldingContents, d \in BOOLEAN, v \in SetterValues[n] }
            : n \in DOMAIN SetterValues }

\* Fields for uint_set and sint_set anywhere in the range of their parameters:
\* inside the buffer, across its end, beyond it, and at the top of uint16_t.
FrameStarts == { 0, 7, BufferBits - 4, BufferBits - 1, BufferBits, BufferBits + 6, 65530, 65535 }

FrameLengths == { 1, 4, 16 }

FrameValues == { 0, 5, 43690, 65535 }

FrameInputs ==
    { CodecCall("frame", [words |-> w, start |-> st, length |-> n, value |-> v, signed |-> sg])
      : <<w, st, n, v, sg>> \in Buffers \X FrameStarts \X FrameLengths \X FrameValues \X BOOLEAN }

CodecInputs == UintInputs \cup SintInputs \cup SyncInputs \cup SetterInputs \cup FrameInputs

InitCodec ==
    InitGateway /\ InitTasks /\ rtu = NoRtu /\ store = BootStore /\ telnet = BootTelnet
    /\ cx \in CodecInputs

Others == <<gw, clock, calls, op, pre, nops, first, prevCallAt, wrote, committed, acked, staged,
            gateway_lock, pc, rtu, store, telnet>>

\* d3net_uint_set on the buffer, then d3net_uint_get of the same field.
UintSetGet ==
    /\ cx.fn = "uint" /\ cx.stage = "in"
    /\ LET a == cx.arg
           r == d3net_uint_set(a.words, BufferWords, a.start, a.length, a.value, FALSE)
       IN  cx' = [cx EXCEPT !.stage = "out",
                            !.res = [words |-> r.words, dirty |-> r.dirty,
                                     got |-> d3net_uint_get(r.words, BufferWords, a.start,
                                                            a.length)]]
    /\ UNCHANGED Others

\* d3net_sint_set on the buffer, then d3net_sint_get of the same field; and
\* d3net_sint_get of the field holding magnitude 0 under a set sign bit.
SintSetGet ==
    /\ cx.fn = "sint" /\ cx.stage = "in"
    /\ LET a == cx.arg
           r == d3net_sint_set(a.words, BufferWords, a.start, a.length, a.value, FALSE)
           z == d3net_uint_set(a.words, BufferWords, a.start, a.length - 1, 0, FALSE)
           nz == d3net_bit_set(z.words, BufferWords, a.start + a.length - 1, TRUE, FALSE)
       IN  cx' = [cx EXCEPT !.stage = "out",
                            !.res = [words |-> r.words, dirty |-> r.dirty,
                                     got |-> d3net_sint_get(r.words, BufferWords, a.start,
                                                            a.length),
                                     negzero |-> IF a.length < 2 THEN a.words ELSE nz.words,
                                     gotnegzero |->
                                         IF a.length < 2 THEN 0
                                         ELSE d3net_sint_get(nz.words, BufferWords, a.start,
                                                             a.length)]]
    /\ UNCHANGED Others

SyncFromStatus ==
    /\ cx.fn = "sync" /\ cx.stage = "in"
    /\ cx' = [cx EXCEPT !.stage = "out",
                        !.res = d3net_holding_sync_from_status(cx.arg.h, cx.arg.s)]
    /\ UNCHANGED Others

\* The setter a name stands for, applied to a shadow.
HoldingSetter(setter, h, value) ==
    CASE setter = "power" -> d3net_holding_power_set(h, value = 1)
      [] setter = "oper_mode" -> d3net_holding_oper_mode_set(h, value)
      [] setter = "temp_setpoint" -> d3net_holding_temp_setpoint_set(h, value)
      [] setter = "fan_speed" -> d3net_holding_fan_speed_set(h, value)
      [] setter = "fan_dir" -> d3net_holding_fan_dir_set(h, value)
      [] setter = "filter_reset" -> d3net_holding_filter_reset_set(h, value = 1)

HoldingSet ==
    /\ cx.fn = "set" /\ cx.stage = "in"
    /\ cx' = [cx EXCEPT !.stage = "out",
                        !.res = HoldingSetter(cx.arg.setter, cx.arg.h, cx.arg.value)]
    /\ UNCHANGED Others

\* d3net_uint_set or d3net_sint_set (of the value, negated for odd starts) on
\* the buffer, then the get of the same field.
FrameSet ==
    /\ cx.fn = "frame" /\ cx.stage = "in"
    /\ LET a == cx.arg
           v == IF a.start % 2 = 1 THEN -a.value ELSE a.value
           r == IF a.signed
                THEN d3net_sint_set(a.words, BufferWords, a.start, a.length, v, FALSE)
                ELSE d3net_uint_set(a.words, BufferWords, a.start, a.length, a.value, FALSE)
       IN  cx' = [cx EXCEPT !.stage = "out",
                            !.res = [words |-> r.words, dirty |-> r.dirty,
                                     got |-> IF a.signed
                                             THEN d3net_sint_get(r.words, BufferWords, a.start,
                                                                 a.length)
                                             ELSE d3net_uint_get(r.words, BufferWords, a.start,
                                                                 a.length)]]
    /\ UNCHANGED Others

NextCodec == UintSetGet \/ SintSetGet \/ SyncFromStatus \/ HoldingSet \/ FrameSet

SpecCodec == InitCodec /\ [][NextCodec]_vars

\* ================================================================== claims
\* C1 (as claimed): any two consecutive read_fn/write_fn calls are at least
\* throttle_ms of wall-clock time apart, within one operation and from the
\* last call of one operation to the first call of the next.
C1_ConsecutiveCallsThrottled ==
    /\ \A k \in 2 .. Len(calls) : calls[k].at - calls[k - 1].at >= gw.throttle_ms
    /\ (calls # <<>> /\ prevCallAt >= 0) => calls[1].at - prevCallAt >= gw.throttle_ms

\* C2 (as claimed): after a command that returned success for unit i at time
\* t, no poll sweep started in [t, t + cache_write_s) reads the unit's status
\* at 2000+6*i, whatever ran in between.
C2_PollSuppressedAfterCommit ==
    op.name = "poll" =>
        \A i \in UnitIndexes :
            (/\ committed[i] >= 0
             /\ op.now_ms >= committed[i]
             /\ op.now_ms - committed[i] < gw.cache_write_s * 1000)
            => \A k \in 1 .. Len(calls) :
                   ~(calls[k].reg_type = "input" /\ calls[k].address = 2000 + 6 * i)

\* C2 (amended): when a command with timestamp now_c has had a holding write
\* for unit i succeed and no discovery has succeeded since, no poll sweep whose
\* own timestamp is less than cache_write_s * 1000 ms after now_c reads the
\* unit's status at 2000+6*i.
C2_PollSuppressedAfterWrite ==
    op.name = "poll" =>
        \A i \in UnitIndexes :
            (/\ wrote[i] # 0
             /\ op.now_ms >= wrote[i]
             /\ op.now_ms - wrote[i] < gw.cache_write_s * 1000)
            => \A k \in 1 .. Len(calls) :
                   ~(calls[k].reg_type = "input" /\ calls[k].address = 2000 + 6 * i)

\* A sweep inside unit 0's window that reads another unit.
C2_Witness ==
    /\ op.name = "poll"
    /\ gw.units[0].present
    /\ wrote[0] # 0
    /\ op.now_ms - wrote[0] < gw.cache_write_s * 1000
    /\ calls # <<>>

\* C3: prepare_write on a present unit reads the 3 holding words at 2000+3*i
\* exactly when last_read_ms is 0, or the shadow is not dirty and neither the
\* last read nor the last write is less than cache_write_s before now (a stamp
\* of 0 is no read or write at all); otherwise it returns success with no
\* transport call and the shadow as it was.
C3_PrepareReloadsExactlyWhenStale ==
    (op.name = "prepare_write" /\ pre.present) =>
        LET h == pre.holding
            now == op.now_ms
            within(stamp) == /\ stamp # 0
                             /\ now >= stamp
                             /\ now - stamp < gw.cache_write_s * 1000
            reload == \/ h.last_read_ms = 0
                      \/ (/\ ~h.dirty
                          /\ ~within(h.last_read_ms)
                          /\ ~within(h.last_write_ms))
            reads == { k \in 1 .. Len(calls) : calls[k].fn = "read" }
        IN  IF reload
            THEN /\ reads = { 1 }
                 /\ calls[1].reg_type = "holding"
                 /\ calls[1].address = 2000 + 3 * op.unit
                 /\ calls[1].count = 3
            ELSE /\ calls = <<>>
                 /\ op.err = ESP_OK
                 /\ gw.units[op.unit].holding = pre.holding

\* A reload of a shadow whose last read has aged out.
C3_Witness ==
    /\ op.name = "prepare_write"
    /\ pre.present
    /\ pre.holding.last_read_ms # 0
    /\ ~pre.holding.dirty
    /\ calls # <<>>
    /\ op.err = ESP_OK

C5_SetpointOneReadOneWrite ==
    LET now == op.now_ms
        h == pre.holding
        within(stamp) == /\ stamp # 0
                         /\ now >= stamp
                         /\ now - stamp < gw.cache_write_s * 1000
        mag == ((IF op.value < 0 THEN -op.value ELSE op.value) + 5) \div 10
        field == IF op.value < 0 /\ mag # 0 THEN 32768 + mag ELSE mag
    IN  (/\ op.name = "command"
         /\ op.cmd = "setpoint"
         /\ pre.present
         /\ ~h.dirty
         /\ ~within(h.last_read_ms)
         /\ ~within(h.last_write_ms)
         /\ \A k \in 1 .. Len(calls) : calls[k].err = ESP_OK)
        => /\ Len(calls) = 2
           /\ calls[1].fn = "read"
           /\ calls[1].reg_type = "holding"
           /\ calls[1].address = 2000 + 3 * op.unit
           /\ calls[2].fn = "write"
           /\ calls[2].address = 2000 + 3 * op.unit
           /\ calls[2].words[3] = field

\* C5 (amended): under the same conditions the command issues exactly one
\* holding read at 2000+3*i, first, and after it only holding writes at
\* 2000+3*i, at most three; the last write, if there is one, carries setpoint
\* x10 in sign-magnitude form at bits 32..47, and so does the shadow
\* afterwards, which is not dirty.
C5_SetpointReadThenWrites ==
    LET now == op.now_ms
        h == pre.holding
        within(stamp) == /\ stamp # 0
                         /\ now >= stamp
                         /\ now - stamp < gw.cache_write_s * 1000
        mag == ((IF op.value < 0 THEN -op.value ELSE op.value) + 5) \div 10
        field == IF op.value < 0 /\ mag # 0 THEN 32768 + mag ELSE mag
        n == Len(calls)
    IN  (/\ op.name = "command"
         /\ op.cmd = "setpoint"
         /\ pre.present
         /\ ~h.dirty
         /\ ~within(h.last_read_ms)
         /\ ~within(h.last_write_ms)
         /\ \A k \in 1 .. n : calls[k].err = ESP_OK)
        => /\ n >= 1
           /\ n <= 4
           /\ calls[1].fn = "read"
           /\ calls[1].reg_type = "holding"
           /\ calls[1].address = 2000 + 3 * op.unit
           /\ calls[1].count = 3
           /\ \A k \in 2 .. n : /\ calls[k].fn = "write"
                                /\ calls[k].address = 2000 + 3 * op.unit
                                /\ calls[k].count = 3
           /\ n >= 2 => calls[n].words[3] = field
           /\ gw.units[op.unit].holding.words[3] = field
           /\ ~gw.units[op.unit].holding.dirty
           /\ op.err = ESP_OK

\* A setpoint command on a shadow whose last read has aged out, which reloads
\* and writes.
C5_Witness ==
    /\ op.name = "command"
    /\ op.cmd = "setpoint"
    /\ pre.present
    /\ pre.holding.last_read_ms # 0
    /\ ~pre.holding.dirty
    /\ op.now_ms - pre.holding.last_read_ms >= gw.cache_write_s * 1000
    /\ Len(calls) >= 2
    /\ \A k \in 1 .. Len(calls) : calls[k].err = ESP_OK

C7_WriteClearsDirtyAndStamps ==
    \A k \in 1 .. Len(calls) :
        (calls[k].fn = "write" /\ calls[k].err = ESP_OK)
        => /\ calls[k].after.dirty = FALSE
           /\ calls[k].after.last_write_ms = op.now_ms

\* A command whose holding write succeeded.
C7_Witness ==
    /\ op.name = "command"
    /\ \E k \in 1 .. Len(calls) : calls[k].fn = "write" /\ calls[k].err = ESP_OK

\* C8 (as claimed): between operations, a dirty shadow differs from the words
\* last successfully written to or read from the adapter for the unit.
C8_DirtyDiffersFromAcked ==
    \A i \in UnitIndexes :
        gw.units[i].holding.dirty => gw.units[i].holding.words # acked[i]

\* C8 (amended): between operations, a dirty shadow has had a word changed by
\* a setter since the last successful holding read or write for the unit; a
\* later setter may have changed it back, so the words can equal the ones the
\* adapter last acknowledged.
C8_DirtyHasStagedChange ==
    \A i \in UnitIndexes : gw.units[i].holding.dirty => staged[i]

\* A failed write leaves the shadow dirty with the change still staged.
C8_Witness ==
    /\ op.name = "command"
    /\ op.err # ESP_OK
    /\ gw.units[op.unit].holding.dirty
    /\ gw.units[op.unit].holding.words # acked[op.unit]

\* C9: in an operator command, a failed read_fn or write_fn call is the
\* command's last transport call and its error is what the command returns.
C9_CommandStopsAtFirstError ==
    op.name = "command" =>
        \A k \in 1 .. Len(calls) :
            calls[k].err # ESP_OK => (k = Len(calls) /\ op.err = calls[k].err)

\* A command whose holding read succeeded and whose write then failed.
C9_Witness ==
    /\ op.name = "command"
    /\ Len(calls) >= 2
    /\ calls[Len(calls)].fn = "write"
    /\ calls[Len(calls)].err # ESP_OK
    /\ op.err = calls[Len(calls)].err

\* C10: after a discovery that read the system status, every index 0..63 whose
\* connected bit 16+i and error bit 80+i are both set has had no capability
\* read (1000+3*i) and no status read (2000+6*i) and is not present; the
\* system status [0x0003, 0x0001, 0, 0, 0, 0x0001, 0, 0, 0] leaves no unit
\* present.
C10_ErroredUnitsNotEnumerated ==
    LET bit(words, b) == (words[(b \div 16) + 1] \div (2 ^ (b % 16))) % 2 = 1
        sys == gw.system_status
    IN  (op.name = "discover" /\ op.err = ESP_OK) =>
        /\ \A i \in 0 .. 63 :
              (bit(sys, 16 + i) /\ bit(sys, 80 + i))
              => /\ ~gw.units[i].present
                 /\ \A k \in 1 .. Len(calls) :
                        /\ calls[k].address # 1000 + 3 * i
                        /\ calls[k].address # 2000 + 6 * i
        /\ sys = <<3, 1, 0, 0, 0, 1, 0, 0, 0>>
           => /\ \A i \in 0 .. 63 : ~gw.units[i].present
              /\ gw.discovered_count = 0
              /\ Len(calls) = 1

\* A discovery that enumerates unit 1 and passes over unit 63, which is
\* connected and in error.
C10_Witness ==
    /\ op.name = "discover"
    /\ op.err = ESP_OK
    /\ (gw.system_status[5] \div 32768) % 2 = 1
    /\ (gw.system_status[9] \div 32768) % 2 = 1
    /\ gw.units[1].present
    /\ ~gw.units[63].present

\* Positions in the last operation's call log of the reads of count words at
\* an address, and of those that succeeded.
ReadsAt(address, count) ==
    { k \in 1 .. Len(calls) : /\ calls[k].fn = "read"
                              /\ calls[k].reg_type = D3NET_REG_INPUT
                              /\ calls[k].address = address
                              /\ calls[k].count = count }

ReadsOkAt(address, count) == { k \in ReadsAt(address, count) : calls[k].err = ESP_OK }

\* Bit b of a word array, counted from bit 0 of word 0.
WordBit(words, b) == (words[(b \div 16) + 1] \div (2 ^ (b % 16))) % 2 = 1

\* C11: discover_units returns success exactly when its first call, the read
\* of 9 input words at address 0, succeeded.  When it did, every index whose
\* connected bit is set and whose error bit is clear gets exactly one
\* capability read (3 words at 1000+3*i), whatever happened to the units
\* before it, and a status read (6 words at 2000+6*i) exactly when its
\* capability read succeeded; the reads go in ascending index order; and a
\* unit is present afterwards exactly when it is connected, not in error, and
\* both of its reads succeeded.
C11_DiscoverToleratesUnitFailures ==
    LET sys == gw.system_status
        cand == { i \in 0 .. 63 : WordBit(sys, 16 + i) /\ ~WordBit(sys, 80 + i) }
        cap(i) == ReadsAt(1000 + 3 * i, 3)
        capOk(i) == ReadsOkAt(1000 + 3 * i, 3)
        st(i) == ReadsAt(2000 + 6 * i, 6)
        stOk(i) == ReadsOkAt(2000 + 6 * i, 6)
    IN  op.name = "discover" =>
        /\ Len(calls) >= 1
        /\ calls[1].fn = "read" /\ calls[1].reg_type = D3NET_REG_INPUT
        /\ calls[1].address = 0 /\ calls[1].count = 9
        /\ (op.err = ESP_OK) <=> (calls[1].err = ESP_OK)
        /\ op.err = calls[1].err
        /\ op.err = ESP_OK =>
            /\ \A i \in 0 .. 63 :
                  /\ Cardinality(cap(i)) = (IF i \in cand THEN 1 ELSE 0)
                  /\ Cardinality(st(i)) = (IF capOk(i) # {} THEN 1 ELSE 0)
                  /\ gw.units[i].present <=> (i \in cand /\ capOk(i) # {} /\ stOk(i) # {})
            /\ \A i \in cand :
                  /\ \A k \in cap(i), l \in st(i) : k < l
                  /\ \A j \in cand :
                        i < j => \A k \in cap(i) \cup st(i), l \in cap(j) : k < l
            /\ Len(calls) = 1 + Cardinality(cand)
                             + Cardinality({ i \in cand : capOk(i) # {} })

\* A discovery in which unit 0's capability read failed, unit 1 was read in
\* full all the same and is present, and unit 0 is absent.
C11_Witness ==
    /\ op.name = "discover"
    /\ op.err = ESP_OK
    /\ ReadsAt(1000, 3) # {} /\ ReadsOkAt(1000, 3) = {}
    /\ ReadsOkAt(1003, 3) # {} /\ ReadsOkAt(2006, 6) # {}
    /\ ~gw.units[0].present
    /\ gw.units[1].present

\* C12 (as claimed): after any discover_units call, also one whose
\* system-status read failed, a unit is present only if that same call
\* enumerated it, that is read its capability and its status successfully.
C12_DiscoverResetsAllUnits ==
    op.name = "discover" =>
        \A i \in 0 .. 63 :
            gw.units[i].present
            => /\ ReadsOkAt(1000 + 3 * i, 3) # {}
               /\ ReadsOkAt(2000 + 6 * i, 6) # {}

\* C13: between operations, discovered_count is the number of indexes 0..63
\* whose unit is present.
C13_DiscoveredCountIsPresentCount ==
    gw.discovered_count = Cardinality({ i \in 0 .. 63 : gw.units[i].present })

\* A discovery after the first operation that left unit 0 absent and counted
\* unit 1 alone.
C13_Witness ==
    /\ op.name = "discover"
    /\ op.err = ESP_OK
    /\ nops >= 2
    /\ gw.discovered_count = 1
    /\ ~gw.units[0].present
    /\ gw.units[1].present

\* The fields of a holding or status word array, read off the words: power
\* bit 0, fan-control enable bits 4..7, fan direction bits 8..10, fan speed
\* bits 12..14, operating mode bits 16..19, filter reset bits 20..23, and the
\* setpoint at bits 32..47 in tenths of a degree, bit 47 its sign.
PowerOf(w) == w[1] % 2

FanControlOf(w) == (w[1] \div 16) % 16

FanDirOf(w) == (w[1] \div 256) % 8

FanSpeedOf(w) == (w[1] \div 4096) % 8

OperModeOf(w) == w[2] % 16

FilterResetOf(w) == (w[2] \div 16) % 16

SetpointOf(w) == IF w[3] >= 32768 THEN -(w[3] - 32768) ELSE w[3]

\* The five fields holding_sync_from_status copies.
CopiedFields(w) == <<PowerOf(w), FanDirOf(w), FanSpeedOf(w), OperModeOf(w), SetpointOf(w)>>

\* The setpoint field holds magnitude 0 under a set sign bit.
NegativeZero(w) == w[3] = 32768

SyncDone == cx.fn = "sync" /\ cx.stage = "out"

\* C14 (as claimed): holding_sync_from_status leaves the filter-reset field
\* (bits 20..23) and the fan-control-enable field (bits 4..7) of the shadow
\* as they were, for every holding and status content.
C14_SyncKeepsFilterAndFanControl ==
    SyncDone =>
        /\ FilterResetOf(cx.res.words) = FilterResetOf(cx.arg.h.words)
        /\ FanControlOf(cx.res.words) = FanControlOf(cx.arg.h.words)

\* C14 (amended): holding_sync_from_status leaves the filter-reset field as
\* it was and leaves 6 in the fan-control-enable field, for every holding and
\* status content.
C14_SyncKeepsFilterSetsFanControl ==
    SyncDone =>
        /\ FilterResetOf(cx.res.words) = FilterResetOf(cx.arg.h.words)
        /\ FanControlOf(cx.res.words) = 6

\* A sync of a shadow whose filter-reset field is not 0 and whose
\* fan-control-enable field is not 6 before the call.
C14_Witness ==
    /\ SyncDone
    /\ FilterResetOf(cx.arg.h.words) # 0
    /\ FanControlOf(cx.arg.h.words) # 6
    /\ cx.res.words # cx.arg.h.words

\* C15 (as claimed): from dirty = false, holding_sync_from_status leaves
\* dirty true exactly when one of the five copied fields of the shadow
\* differed from the status view before the call; afterwards the five fields
\* equal the status values.
C15_SyncDirtyIffFieldDiffers ==
    (SyncDone /\ ~cx.arg.h.dirty) =>
        /\ cx.res.dirty <=> (CopiedFields(cx.arg.h.words) # CopiedFields(cx.arg.s))
        /\ CopiedFields(cx.res.words) = CopiedFields(cx.arg.s)

\* C15 (amended): from dirty = false, holding_sync_from_status leaves dirty
\* true exactly when one of the five copied fields differed from the status
\* view before the call, or the fan-control-enable field was not 6, or the
\* shadow's setpoint was stored as negative zero; afterwards the five fields
\* equal the status values, fan-control-enable is 6, and dirty is true
\* exactly when the words changed.
C15_SyncDirtyIffWordsChange ==
    (SyncDone /\ ~cx.arg.h.dirty) =>
        /\ cx.res.dirty <=> \/ CopiedFields(cx.arg.h.words) # CopiedFields(cx.arg.s)
                            \/ FanControlOf(cx.arg.h.words) # 6
                            \/ NegativeZero(cx.arg.h.words)
        /\ CopiedFields(cx.res.words) = CopiedFields(cx.arg.s)
        /\ FanControlOf(cx.res.words) = 6
        /\ cx.res.dirty <=> (cx.res.words # cx.arg.h.words)

\* A sync from dirty = false in which the five fields already agreed and
\* only the fan-control-enable field made the shadow dirty.
C15_Witness ==
    /\ SyncDone
    /\ ~cx.arg.h.dirty
    /\ CopiedFields(cx.arg.h.words) = CopiedFields(cx.arg.s)
    /\ ~NegativeZero(cx.arg.h.words)
    /\ FanControlOf(cx.arg.h.words) # 6
    /\ cx.res.dirty

\* The value a setter's field holds, as the field's getter returns it; a
\* setpoint in hundredths of a degree, a bool as 0 or 1.
FieldValue(setter, w) ==
    CASE setter = "power" -> PowerOf(w)
      [] setter = "oper_mode" -> OperModeOf(w)
      [] setter = "temp_setpoint" -> SetpointOf(w) * 10
      [] setter = "fan_speed" -> FanSpeedOf(w)
      [] setter = "fan_dir" -> FanDirOf(w)
      [] setter = "filter_reset" -> IF FilterResetOf(w) # 0 THEN 1 ELSE 0

SetDone == cx.fn = "set" /\ cx.stage = "out"

\* C16 (as claimed): for every holding setter and every shadow with dirty =
\* false, setting the field to the value it holds leaves dirty false, and
\* setting it to a different value of its range makes dirty true.
C16_SetterDirtyIffValueDiffers ==
    (SetDone /\ ~cx.arg.h.dirty) =>
        (cx.res.dirty <=> (cx.arg.value # FieldValue(cx.arg.setter, cx.arg.h.words)))

\* Setting the value the field holds changes the words all the same: the fan
\* setters when fan-control-enable is not 6, the setpoint setter on a
\* negative zero, the filter-reset setter on a field that is neither 0 nor 15.
RewritesCurrent(setter, w) ==
    CASE setter \in { "fan_speed", "fan_dir" } -> FanControlOf(w) # 6
      [] setter = "temp_setpoint" -> NegativeZero(w)
      [] setter = "filter_reset" -> FilterResetOf(w) \notin { 0, 15 }
      [] OTHER -> FALSE

\* C16 (amended): for every holding setter and every shadow with dirty =
\* false, setting the field to a different value of its range makes dirty
\* true; setting it to the value it holds leaves dirty false for power and
\* operating mode, for fan speed and fan direction when fan-control-enable
\* already is 6, for the setpoint unless it is stored as negative zero, and
\* for filter reset when the field is 0 or 15, and makes dirty true in the
\* other cases; afterwards the field holds the value set.
C16_SetterDirtyIffWordsChange ==
    (SetDone /\ ~cx.arg.h.dirty) =>
        LET same == cx.arg.value = FieldValue(cx.arg.setter, cx.arg.h.words)
        IN  /\ ~same => cx.res.dirty
            /\ same => (cx.res.dirty <=> RewritesCurrent(cx.arg.setter, cx.arg.h.words))
            /\ FieldValue(cx.arg.setter, cx.res.words) = cx.arg.value

\* The operating-mode setter given the mode the shadow holds, dirty staying
\* false, on a shadow whose fan-control-enable is not 6.
C16_Witness ==
    /\ SetDone
    /\ ~cx.arg.h.dirty
    /\ cx.arg.setter = "oper_mode"
    /\ cx.arg.value = OperModeOf(cx.arg.h.words)
    /\ cx.arg.value # 0
    /\ FanControlOf(cx.arg.h.words) # 6
    /\ ~cx.res.dirty

\* C17: for the lengths 1..32 and the starts 0..144-length of a 9-word
\* buffer of any content, uint_set of a value below 2^length followed by
\* uint_get of the same field returns the value, also when the field lies
\* across word boundaries; the bits outside the field keep their values.
C17_UintSetGetRoundTrip ==
    (cx.fn = "uint" /\ cx.stage = "out") =>
        /\ cx.res.got = cx.arg.value
        /\ \A b \in 0 .. (BufferBits - 1) :
              (b < cx.arg.start \/ b >= cx.arg.start + cx.arg.length)
              => (WordBit(cx.res.words, b) <=> WordBit(cx.arg.words, b))

\* A 32-bit field that starts at bit 30 and so lies across three words, set
\* to a value that changes the buffer and read back.
C17_Witness ==
    /\ cx.fn = "uint" /\ cx.stage = "out"
    /\ cx.arg.length = 32
    /\ cx.arg.start = 30
    /\ cx.arg.value = 1431655765
    /\ cx.res.words # cx.arg.words
    /\ cx.res.got = 1431655765

\* C18: for a length of 2..17 and a value v with |v| < 2^(length-1),
\* sint_set leaves |v| in the field's low length-1 bits and (v < 0) in bit
\* start+length-1, and sint_get then returns v; a field holding magnitude 0
\* under a set sign bit reads as 0; for a length below 2 sint_get returns 0
\* and sint_set changes nothing.
C18_SintSignMagnitude ==
    (cx.fn = "sint" /\ cx.stage = "out") =>
        LET a == cx.arg
            mag == IF a.value < 0 THEN -a.value ELSE a.value
        IN  IF a.length >= 2
            THEN /\ \A i \in 0 .. (a.length - 2) :
                       WordBit(cx.res.words, a.start + i) <=> ((mag \div (2 ^ i)) % 2 = 1)
                 /\ WordBit(cx.res.words, a.start + a.length - 1) <=> (a.value < 0)
                 /\ cx.res.got = a.value
                 /\ WordBit(cx.res.negzero, a.start + a.length - 1)
                 /\ \A i \in 0 .. (a.length - 2) : ~WordBit(cx.res.negzero, a.start + i)
                 /\ cx.res.gotnegzero = 0
            ELSE /\ cx.res.got = 0
                 /\ cx.res.words = a.words
                 /\ ~cx.res.dirty

\* A 17-bit field across two words set to -65535 and read back.
C18_Witness ==
    /\ cx.fn = "sint" /\ cx.stage = "out"
    /\ cx.arg.length = 17
    /\ cx.arg.start = 15
    /\ cx.arg.value = -65535
    /\ cx.res.got = -65535
    /\ cx.res.words # cx.arg.words

\* C19: read_error on a present unit i issues no transport call, returns
\* success and leaves the unit as it was when last_error_read_ms is not 0 and
\* now - last_error_read_ms < cache_error_s*1000; otherwise its one call is a
\* read of 2 input words at 3600+2*i whose result it returns, and
\* last_error_read_ms becomes now when that read succeeded and keeps its
\* value when it failed, so that the next read_error of the unit reads again.
C19_ReadErrorCachedUnlessStale ==
    [][ /\ (op'.name = "read_error" /\ pre'.present) =>
             LET i == op'.unit
                 now == op'.now_ms
                 stamp == pre'.last_error_read_ms
                 cached == stamp # 0 /\ now - stamp < gw'.cache_error_s * 1000
             IN  IF cached
                 THEN /\ calls' = <<>>
                      /\ op'.err = ESP_OK
                      /\ gw'.units[i] = pre'
                 ELSE /\ Len(calls') = 1
                      /\ calls'[1].fn = "read"
                      /\ calls'[1].reg_type = D3NET_REG_INPUT
                      /\ calls'[1].address = 3600 + 2 * i
                      /\ calls'[1].count = 2
                      /\ op'.err = calls'[1].err
                      /\ gw'.units[i].last_error_read_ms
                            = (IF calls'[1].err = ESP_OK THEN now ELSE stamp)
                      /\ calls'[1].err = ESP_OK => gw'.units[i].error = calls'[1].words
                      /\ calls'[1].err # ESP_OK => gw'.units[i] = pre'
        /\ ( /\ op.name = "read_error" /\ calls # <<>> /\ calls[1].err # ESP_OK
             /\ op'.name = "read_error" /\ op'.unit = op.unit )
           => (calls' # <<>> /\ calls'[1].address = 3600 + 2 * op.unit)
      ]_vars

\* A read_error answered from the cache: the unit was read less than
\* cache_error_s ago and no call is made.
C19_Witness ==
    /\ op.name = "read_error"
    /\ pre.present
    /\ pre.last_error_read_ms # 0
    /\ calls = <<>>
    /\ op.err = ESP_OK

\* C20: a poll_status sweep returns success whatever its reads returned; its
\* calls are one read of 6 input words at 2000+6*i for each present unit i
\* that no command has written within cache_write_s*1000 ms of the sweep's
\* start, in ascending index order, each made whether or not the ones before
\* it failed, and nothing else.
C20_PollSweepToleratesFailures ==
    LET suppressed(i) == wrote[i] # 0 /\ op.now_ms - wrote[i] < gw.cache_write_s * 1000
        due == { i \in 0 .. 63 : gw.units[i].present /\ ~suppressed(i) }
    IN  op.name = "poll" =>
        /\ op.err = ESP_OK
        /\ Len(calls) = Cardinality(due)
        /\ \A i \in 0 .. 63 :
              Cardinality(ReadsAt(2000 + 6 * i, 6)) = (IF i \in due THEN 1 ELSE 0)
        /\ \A i \in due, j \in due :
              i < j => \A k \in ReadsAt(2000 + 6 * i, 6), l \in ReadsAt(2000 + 6 * j, 6) : k < l

\* A sweep over units 0 and 1 in which the read of unit 0 failed and the read
\* of unit 1 followed.
C20_Witness ==
    /\ op.name = "poll"
    /\ op.err = ESP_OK
    /\ Len(calls) = 2
    /\ calls[1].address = 2000 /\ calls[1].err # ESP_OK
    /\ calls[2].address = 2006 /\ calls[2].err = ESP_OK

\* C21: after a successful set_mode(unit, m) the unit's status view and its
\* holding shadow carry power = 1 and operating mode = m mod 16, and so do
\* the holding words last exchanged with the adapter for the unit, which are
\* the last words the command wrote whenever it wrote; also when the unit was
\* off before.
C21_SetModeForcesPowerOn ==
    (op.name = "command" /\ op.cmd = "mode" /\ op.err = ESP_OK) =>
        LET i == op.unit
            mode == valueint(op.value) % 16
            u == gw.units[i]
            writes == { k \in 1 .. Len(calls) : calls[k].fn = "write" }
        IN  /\ PowerOf(u.status) = 1 /\ OperModeOf(u.status) = mode
            /\ PowerOf(u.holding.words) = 1 /\ OperModeOf(u.holding.words) = mode
            /\ PowerOf(acked[i]) = 1 /\ OperModeOf(acked[i]) = mode
            /\ writes # {} =>
                 /\ calls[Max(writes)].address = 2000 + 3 * i
                 /\ PowerOf(calls[Max(writes)].words) = 1
                 /\ OperModeOf(calls[Max(writes)].words) = mode
                 /\ acked[i] = calls[Max(writes)].words

\* A successful set_mode on a unit whose status view had power off and
\* another mode, which wrote the holding words.
C21_Witness ==
    /\ op.name = "command" /\ op.cmd = "mode" /\ op.err = ESP_OK
    /\ PowerOf(pre.status) = 0
    /\ OperModeOf(pre.status) # valueint(op.value)
    /\ \E k \in 1 .. Len(calls) : calls[k].fn = "write"

\* ------------------------------------------- the tasks and gateway_lock
\* Every use of the gateway by a task has the shape
\*     if (xSemaphoreTake(app->gateway_lock, timeout) == pdTRUE) {
\*         operation;  xSemaphoreGive(app->gateway_lock);  }
\* A task is "idle" outside that statement, at "take" while xSemaphoreTake
\* waits, at "locked" inside the block before its operation, and at "give"
\* once the operation has returned.

gateway_lock_take_unchecked(lock, t) ==
    [lock |-> IF lock = NoTask THEN t ELSE lock, taken |-> TRUE]

\* xSemaphoreTake(app->gateway_lock, timeout) == pdTRUE, for task t: the mutex
\* goes to t when it is free, and the wait runs out when it is not.
gateway_lock_take(lock, t) ==
    IF lock = NoTask THEN [lock |-> t, taken |-> TRUE]
    ELSE [lock |-> lock, taken |-> FALSE]

\* xSemaphoreGive(app->gateway_lock) by its holder.
gateway_lock_give(lock, t) == IF lock = t THEN NoTask ELSE lock

after_operation_returning_on_error(err) == IF err = ESP_OK THEN "give" ELSE "idle"

\* Where a task stands when its operation has returned err: every branch of
\* the block falls through to the xSemaphoreGive that closes it.
after_operation(err) == "give"

\* Requests the HTTP server gets while tasks compete: power on, and a command
\* the handler does not know.
TaskCommands == { [cmd |-> "power", value |-> 100], [cmd |-> "reboot", value |-> 0] }

\* A task reaches its xSemaphoreTake.
TaskTake(t) ==
    /\ pc[t] = "idle"
    /\ pc' = [pc EXCEPT ![t] = "take"]
    /\ UNCHANGED <<gw, clock, calls, op, pre, nops, first, prevCallAt, wrote,
                   committed, acked, staged, standalone, gateway_lock>>

\* xSemaphoreTake returns pdTRUE: the task is inside the block.
TaskLocked(t) ==
    /\ pc[t] = "take"
    /\ gateway_lock_take(gateway_lock, t).taken
    /\ gateway_lock' = gateway_lock_take(gateway_lock, t).lock
    /\ pc' = [pc EXCEPT ![t] = "locked"]
    /\ UNCHANGED <<gw, clock, calls, op, pre, nops, first, prevCallAt, wrote,
                   committed, acked, staged, standalone>>

\* xSemaphoreTake returns pdFALSE: the block is skipped.
TaskTimeout(t) ==
    /\ pc[t] = "take"
    /\ ~gateway_lock_take(gateway_lock, t).taken
    /\ gateway_lock' = gateway_lock_take(gateway_lock, t).lock
    /\ pc' = [pc EXCEPT ![t] = "idle"]
    /\ UNCHANGED <<gw, clock, calls, op, pre, nops, first, prevCallAt, wrote,
                   committed, acked, staged, standalone>>

\* A poll_task that clears its flag after the first discovery whatever the
\* discovery returned.
poll_task_first_cleared(flag, err) == FALSE

\* poll_task's static flag after a cycle that ran discover_units:
\* "if (err == ESP_OK) first = false".
poll_task_first(flag, err) == flag /\ err # ESP_OK

\* poll_task's block: discovery until one succeeds, a status sweep after.
PollTaskCycle ==
    /\ pc["poll_task"] = "locked"
    /\ nops < MaxOps
    /\ \E out \in (IF first THEN d3net_gateway_discover_units(Begin(0))
                   ELSE d3net_gateway_poll_status(Begin(0))) :
         /\ Outcome(IF first THEN "discover" ELSE "poll", -1, "", 0, clock, Begin(0), out)
         /\ first' = (IF first THEN poll_task_first(first, out.err) ELSE first)
         /\ pc' = [pc EXCEPT !["poll_task"] = after_operation(out.err)]
    /\ UNCHANGED <<standalone, gateway_lock>>

\* handle_discover_post's block.
HttpDiscover ==
    /\ pc["httpd"] = "locked"
    /\ nops < MaxOps
    /\ \E out \in d3net_gateway_discover_units(Begin(0)) :
         /\ Outcome("discover", -1, "", 0, clock, Begin(0), out)
         /\ pc' = [pc EXCEPT !["httpd"] = after_operation(out.err)]
    /\ UNCHANGED <<first, standalone, gateway_lock>>

\* handle_hvac_cmd_post's block.
HttpCommand ==
    /\ pc["httpd"] = "locked"
    /\ nops < MaxOps
    /\ \E i \in RequestIndexes, c \in TaskCommands :
         \E out \in handle_hvac_cmd(Begin(0), i, c.cmd, c.value) :
            /\ Outcome("command", i, c.cmd, c.value, clock, Begin(0), out)
            /\ pc' = [pc EXCEPT !["httpd"] = after_operation(out.err)]
    /\ UNCHANGED <<first, standalone, gateway_lock>>

\* The blocks that only read the unit records: handle_hvac_get and
\* handle_registry_get in the HTTP server, and telnet_status_task's.
ReadUnits(t) ==
    /\ t \in { "httpd", "telnet_status_task" }
    /\ pc[t] = "locked"
    /\ pc' = [pc EXCEPT ![t] = after_operation(ESP_OK)]
    /\ UNCHANGED <<gw, clock, calls, op, pre, nops, first, prevCallAt, wrote,
                   committed, acked, staged, standalone, gateway_lock>>

\* The xSemaphoreGive that closes the block.
TaskGive(t) ==
    /\ pc[t] = "give"
    /\ gateway_lock' = gateway_lock_give(gateway_lock, t)
    /\ pc' = [pc EXCEPT ![t] = "idle"]
    /\ UNCHANGED <<gw, clock, calls, op, pre, nops, first, prevCallAt, wrote,
                   committed, acked, staged, standalone>>

NextTasks ==
    \/ \E t \in Tasks : TaskTake(t)
    \/ \E t \in Tasks : TaskLocked(t)
    \/ \E t \in Tasks : TaskTimeout(t)
    \/ PollTaskCycle
    \/ HttpDiscover
    \/ HttpCommand
    \/ \E t \in Tasks : ReadUnits(t)
    \/ \E t \in Tasks : TaskGive(t)

SpecTasks == Init /\ [][NextTasks]_vars

\* A task is between a successful take and the matching give.
InBlock(t) == pc[t] \in { "locked", "give" }

\* C22: no two tasks are inside a block that uses the gateway at once, a task
\* inside one holds gateway_lock, and a step that runs a gateway operation
\* (it changes the gateway, the clock, or the calls and operations made) is a
\* step of the task that holds the lock, taken inside its block.
C22_OperationsUnderLock ==
    [][ /\ \A t, u \in Tasks : (InBlock(t)' /\ InBlock(u)') => t = u
        /\ \A t \in Tasks : InBlock(t)' => gateway_lock' = t
        /\ (gw' # gw \/ clock' # clock \/ calls' # calls \/ op' # op \/ nops' # nops) =>
              \E t \in Tasks : /\ gateway_lock = t /\ gateway_lock' = t
                               /\ pc[t] = "locked" /\ pc'[t] = "give"
                               /\ \A u \in Tasks \ { t } : pc'[u] = pc[u] ]_vars

\* poll_task is through a sweep and still holds the lock, while the HTTP
\* server and telnet_status_task both wait for it.
C22_Witness ==
    /\ op.name = "poll" /\ pc["poll_task"] = "give" /\ gateway_lock = "poll_task"
    /\ pc["httpd"] = "take" /\ pc["telnet_status_task"] = "take"

\* C23: a task outside its block does not hold gateway_lock; a task leaves its
\* operation to the give whatever the operation returned, and the give frees
\* the lock; a task that waits either gets the lock or goes back to idle with
\* the gateway, the clock, the calls and the lock as they were.
C23_LockReleasedOnEveryPath ==
    [][ \A t \in Tasks :
          /\ (pc'[t] \in { "idle", "take" }) => gateway_lock' # t
          /\ (pc[t] = "locked" /\ pc'[t] # "locked") => pc'[t] = "give"
          /\ (pc[t] = "give" /\ pc'[t] # "give") =>
                pc'[t] = "idle" /\ gateway_lock = t /\ gateway_lock' = NoTask
          /\ (pc[t] = "take" /\ pc'[t] # "take") =>
                \/ pc'[t] = "locked" /\ gateway_lock = NoTask /\ gateway_lock' = t
                \/ /\ pc'[t] = "idle"
                   /\ UNCHANGED <<gw, clock, calls, op, nops, gateway_lock>> ]_vars

\* The HTTP server is out of its handler after a command on a unit that is
\* not present, and the lock is free again.
C23_Witness ==
    /\ op.name = "command" /\ op.err = ESP_ERR_NOT_FOUND
    /\ pc["httpd"] = "idle" /\ gateway_lock = NoTask

\* --------------------------------------------------- the RTU transport
Hi(w) == (w \div 256) % 256

Lo(w) == w % 256

RECURSIVE XorBits(_, _, _)
XorBits(a, b, n) ==
    IF n = 0 THEN 0
    ELSE (((a % 2) + (b % 2)) % 2) + 2 * XorBits(a \div 2, b \div 2, n - 1)

\* a ^ b on uint16_t
Xor16(a, b) == XorBits(a, b, 16)

\* One turn of modbus_crc16's inner loop.
crc_shift(crc) == IF crc % 2 = 1 THEN Xor16(crc \div 2, 40961) ELSE crc \div 2

\* The inner loop; the test of crc against Nat fixes the order of evaluation.
RECURSIVE crc_bits(_, _)
crc_bits(crc, j) ==
    IF j = 8 \/ crc \notin Nat THEN crc ELSE crc_bits(crc_shift(crc), j + 1)

RECURSIVE modbus_crc16_loop(_, _, _)
modbus_crc16_loop(data, i, crc) ==
    IF i > Len(data) \/ crc \notin Nat THEN crc
    ELSE modbus_crc16_loop(data, i + 1, crc_bits(Xor16(crc, data[i]), 0))

modbus_crc16(data) == modbus_crc16_loop(data, 1, 65535)

\* Words as bytes, high byte first.
WordBytes(words) ==
    [k \in 1 .. 2 * Len(words) |->
        IF k % 2 = 1 THEN Hi(words[(k + 1) \div 2]) ELSE Lo(words[k \div 2])]

\* A frame body with its CRC behind it, low byte first.
WithCrc(body) == body \o <<Lo(modbus_crc16(body)), Hi(modbus_crc16(body))>>

read_request_crc_high_first(cfg, reg_type, address, count) ==
    LET body == <<cfg.slave_id, IF reg_type = D3NET_REG_HOLDING THEN 3 ELSE 4,
                  Hi(address), Lo(address), Hi(count), Lo(count)>>
    IN  body \o <<Hi(modbus_crc16(body)), Lo(modbus_crc16(body))>>

\* req[0..7] of modbus_rtu_read_registers.
read_request(cfg, reg_type, address, count) ==
    LET body == <<cfg.slave_id, IF reg_type = D3NET_REG_HOLDING THEN 3 ELSE 4,
                  Hi(address), Lo(address), Hi(count), Lo(count)>>
        crc == modbus_crc16(body)
    IN  body \o <<Lo(crc), Hi(crc)>>

\* req[0..req_len-1] of modbus_rtu_write_registers.
write_request(cfg, address, count, words) ==
    LET body == <<cfg.slave_id, 16, Hi(address), Lo(address), Hi(count), Lo(count),
                  (count * 2) % 256>> \o WordBytes(SubSeq(words, 1, count))
        crc == modbus_crc16(body)
    IN  body \o <<Lo(crc), Hi(crc)>>

\* Bytes rtu_transceive is asked to receive.
rx_len_expected(fn, count) == IF fn = "read" THEN 5 + count * 2 ELSE 8

modbus_rtu_read_reply_copying_first(cfg, req, count, resp, out_words) ==
    LET got == Len(resp)
        rx_crc == resp[got - 1] + 256 * resp[got]
        calc_crc == modbus_crc16(SubSeq(resp, 1, got - 2))
        copied == [k \in 1 .. count |-> resp[2 + 2 * k] * 256 + resp[3 + 2 * k]]
    IN  IF got < 5 + count * 2 THEN [err |-> ESP_ERR_TIMEOUT, out_words |-> out_words]
        ELSE IF \/ resp[1] # cfg.slave_id \/ resp[2] # req[2]
                \/ resp[3] # (count * 2) % 256
        THEN [err |-> ESP_FAIL, out_words |-> out_words]
        ELSE IF rx_crc # calc_crc THEN [err |-> ESP_ERR_INVALID_CRC, out_words |-> copied]
        ELSE [err |-> ESP_OK, out_words |-> copied]

\* modbus_rtu_read_registers once rtu_transceive has returned ESP_OK with
\* resp, the bytes received.
modbus_rtu_read_reply(cfg, req, count, resp, out_words) ==
    LET got == Len(resp)
        rx_crc == resp[got - 1] + 256 * resp[got]
        calc_crc == modbus_crc16(SubSeq(resp, 1, got - 2))
    IN  IF got < 5 + count * 2 THEN [err |-> ESP_ERR_TIMEOUT, out_words |-> out_words]
        ELSE IF \/ resp[1] # cfg.slave_id \/ resp[2] # req[2]
                \/ resp[3] # (count * 2) % 256
        THEN [err |-> ESP_FAIL, out_words |-> out_words]
        ELSE IF rx_crc # calc_crc THEN [err |-> ESP_ERR_INVALID_CRC, out_words |-> out_words]
        ELSE [err |-> ESP_OK,
              out_words |-> [k \in 1 .. count |-> resp[2 + 2 * k] * 256 + resp[3 + 2 * k]]]

modbus_rtu_write_reply_without_echo(cfg, req, resp) ==
    IF Len(resp) < 8 THEN ESP_ERR_TIMEOUT
    ELSE IF resp[1] # cfg.slave_id \/ resp[2] # 16 THEN ESP_FAIL
    ELSE IF resp[7] + 256 * resp[8] # modbus_crc16(SubSeq(resp, 1, 6))
    THEN ESP_ERR_INVALID_CRC
    ELSE ESP_OK

\* modbus_rtu_write_registers once rtu_transceive has returned ESP_OK.
modbus_rtu_write_reply(cfg, req, resp) ==
    IF Len(resp) < 8 THEN ESP_ERR_TIMEOUT
    ELSE IF \/ resp[1] # cfg.slave_id \/ resp[2] # 16
            \/ resp[3] # req[3] \/ resp[4] # req[4]
            \/ resp[5] # req[5] \/ resp[6] # req[6]
    THEN ESP_FAIL
    ELSE IF resp[7] + 256 * resp[8] # modbus_crc16(SubSeq(resp, 1, 6))
    THEN ESP_ERR_INVALID_CRC
    ELSE ESP_OK

\* The levels of the DE and RE pins after rtu_set_tx.
rtu_set_tx(cfg, pins) ==
    [de |-> IF cfg.de_pin >= 0 THEN 1 ELSE pins.de,
     re |-> IF cfg.re_pin >= 0 THEN 1 ELSE pins.re]

rtu_set_rx_de_only(cfg, pins) ==
    [de |-> IF cfg.de_pin >= 0 THEN 0 ELSE pins.de, re |-> pins.re]

\* The levels of the DE and RE pins after rtu_set_rx.
rtu_set_rx(cfg, pins) ==
    [de |-> IF cfg.de_pin >= 0 THEN 0 ELSE pins.de,
     re |-> IF cfg.re_pin >= 0 THEN 0 ELSE pins.re]

\* app_main's rtu_cfg, as far as the frames and the pins go.
rtu_cfg == [slave_id |-> 1, de_pin |-> 4, re_pin |-> 5]

\* The calls the gateway makes, a one-register read, and the calls the
\* transport turns down: no registers, and more than a reply buffer holds.
RtuRequests ==
    { [fn |-> "read", reg_type |-> D3NET_REG_INPUT, address |-> D3NET_ADDR_SYSTEM_STATUS,
       count |-> D3NET_CNT_SYSTEM_STATUS, words |-> <<>>],
      [fn |-> "read", reg_type |-> D3NET_REG_INPUT, address |-> 0, count |-> 1,
       words |-> <<>>],
      [fn |-> "read", reg_type |-> D3NET_REG_HOLDING, address |-> D3NET_ADDR_UNIT_HOLDING,
       count |-> D3NET_CNT_UNIT_HOLDING, words |-> <<>>],
      [fn |-> "read", reg_type |-> D3NET_REG_INPUT, address |-> 0, count |-> 0,
       words |-> <<>>],
      [fn |-> "read", reg_type |-> D3NET_REG_INPUT, address |-> 0, count |-> 128,
       words |-> <<>>],
      [fn |-> "write", reg_type |-> D3NET_REG_HOLDING,
       address |-> D3NET_ADDR_UNIT_HOLDING + D3NET_CNT_UNIT_HOLDING,
       count |-> D3NET_CNT_UNIT_HOLDING, words |-> <<96, 240, 32768>>] }

\* Register contents a slave answers a read with.
SlaveWords(count) ==
    { [k \in 1 .. count |-> 0], [k \in 1 .. count |-> 4660 + 257 * k] }

\* What the caller's buffer holds before a read.
BufferBefore(count) == [k \in 1 .. count |-> 43690 + k]

\* A frame with bit b of its CRC trailer flipped.
CrcBitFlipped(frame, b) ==
    LET n == Len(frame)
        crc == Xor16(frame[n - 1] + 256 * frame[n], 2 ^ b)
    IN  SubSeq(frame, 1, n - 2) \o <<Lo(crc), Hi(crc)>>

\* What the line can carry back after a request: nothing, the slave's answer,
\* the answer with one CRC bit wrong, an exception reply, the answer of
\* another slave, of another function, with another byte count, echoing
\* another address, and the answer followed by noise.  Each is a frame with
\* a CRC of its own except where the CRC is the fault.
LineReplies(q) ==
    LET fc == IF q.fn = "write" THEN 16
              ELSE IF q.reg_type = D3NET_REG_HOLDING THEN 3 ELSE 4
        answers ==
            IF q.fn = "read"
            THEN { WithCrc(<<rtu_cfg.slave_id, fc, 2 * q.count>> \o WordBytes(w))
                   : w \in SlaveWords(q.count) }
            ELSE { WithCrc(<<rtu_cfg.slave_id, fc, Hi(q.address), Lo(q.address),
                             Hi(q.count), Lo(q.count)>>) }
        others ==
            IF q.fn = "read"
            THEN { WithCrc(<<rtu_cfg.slave_id + 1, fc, 2 * q.count>> \o WordBytes(w))
                   : w \in SlaveWords(q.count) }
                 \cup { WithCrc(<<rtu_cfg.slave_id, 7 - fc, 2 * q.count>> \o WordBytes(w))
                        : w \in SlaveWords(q.count) }
                 \cup { WithCrc(<<rtu_cfg.slave_id, fc, 2 * q.count + 2>> \o WordBytes(w))
                        : w \in SlaveWords(q.count) }
            ELSE { WithCrc(<<rtu_cfg.slave_id + 1, fc, Hi(q.address), Lo(q.address),
                             Hi(q.count), Lo(q.count)>>),
                   WithCrc(<<rtu_cfg.slave_id, fc, Hi(q.address), Lo(q.address) + 3,
                             Hi(q.count), Lo(q.count)>>),
                   WithCrc(<<rtu_cfg.slave_id, fc, Hi(q.address), Lo(q.address),
                             Hi(q.count), Lo(q.count) + 1>>) }
    IN  IF q.count = 0 \/ q.count > 127 THEN { <<>> }
        ELSE { <<>>, WithCrc(<<rtu_cfg.slave_id, fc + 128, 2>>) }
             \cup answers \cup others
             \cup { a \o <<0, 0>> : a \in answers }
             \cup { CrcBitFlipped(a, b) : a \in answers, b \in 0 .. 15 }

\* A call as modbus_rtu_read_registers or modbus_rtu_write_registers is
\* entered: the pins are low since modbus_rtu_init.
RtuCalls ==
    UNION { { [fn |-> q.fn, reg_type |-> q.reg_type, address |-> q.address,
               count |-> q.count, words |-> q.words,
               out_words |-> BufferBefore(q.count), before |-> BufferBefore(q.count),
               line |-> l, at |-> "call", pins |-> [de |-> 0, re |-> 0],
               req |-> <<>>, sent |-> <<>>, resp |-> <<>>, err |-> ESP_OK,
               trace |-> <<>>] : l \in LineReplies(q) } : q \in RtuRequests }

InitRtu ==
    InitGateway /\ InitTasks /\ cx = NoCodec /\ store = BootStore /\ telnet = BootTelnet
    /\ rtu \in RtuCalls

NotRtu == <<gw, clock, calls, op, pre, nops, first, prevCallAt, wrote, committed, acked,
            staged, gateway_lock, pc, cx, store, telnet>>

\* The call checks its arguments, builds its request and enters
\* rtu_transceive, which flushes the receive side.
RtuCall ==
    /\ rtu.at = "call"
    /\ rtu' = IF rtu.count = 0
              THEN [rtu EXCEPT !.at = "done", !.err = ESP_ERR_INVALID_ARG]
              ELSE IF (IF rtu.fn = "read" THEN 5 + rtu.count * 2 > 260
                       ELSE 9 + rtu.count * 2 > 256)
              THEN [rtu EXCEPT !.at = "done", !.err = ESP_ERR_INVALID_SIZE]
              ELSE [rtu EXCEPT !.at = "flushed", !.trace = <<"flush">>,
                               !.req = IF rtu.fn = "read"
                                       THEN read_request(rtu_cfg, rtu.reg_type,
                                                         rtu.address, rtu.count)
                                       ELSE write_request(rtu_cfg, rtu.address,
                                                          rtu.count, rtu.words)]
    /\ UNCHANGED NotRtu

\* rtu_set_tx
RtuSetTx ==
    /\ rtu.at = "flushed"
    /\ rtu' = [rtu EXCEPT !.at = "sending", !.pins = rtu_set_tx(rtu_cfg, rtu.pins),
                          !.trace = Append(@, "set_tx")]
    /\ UNCHANGED NotRtu

\* uart_write_bytes takes the whole request, or fails.
RtuWrite ==
    /\ rtu.at = "sending"
    /\ \E written \in { Len(rtu.req), -1 } :
         rtu' = [rtu EXCEPT !.at = IF written # Len(rtu.req) THEN "short_write"
                                   ELSE "written",
                            !.sent = IF written > 0 THEN SubSeq(rtu.req, 1, written)
                                     ELSE <<>>,
                            !.err = IF written # Len(rtu.req) THEN ESP_FAIL ELSE ESP_OK,
                            !.trace = Append(@, "write")]
    /\ UNCHANGED NotRtu

\* uart_wait_tx_done comes back in time, or not.
RtuWaitTxDone ==
    /\ rtu.at = "written"
    /\ \E err \in { ESP_OK, ESP_ERR_TIMEOUT } :
         rtu' = [rtu EXCEPT !.at = "tx_waited", !.err = err,
                            !.trace = Append(@, "wait_tx_done")]
    /\ UNCHANGED NotRtu

\* rtu_set_rx, after a short write and after uart_wait_tx_done; rtu_transceive
\* returns from there unless both went well.
RtuSetRx ==
    /\ rtu.at \in { "short_write", "tx_waited" }
    /\ rtu' = [rtu EXCEPT !.at = IF rtu.err # ESP_OK THEN "returned" ELSE "receive",
                          !.pins = rtu_set_rx(rtu_cfg, rtu.pins),
                          !.trace = Append(@, "set_rx")]
    /\ UNCHANGED NotRtu

\* One turn of the receive loop: uart_read_bytes hands over bytes of the line,
\* or the deadline passes; rtu_transceive returns when the expected bytes are
\* in or the loop breaks.
RtuReceive ==
    /\ rtu.at = "receive"
    /\ LET exp == rx_len_expected(rtu.fn, rtu.count)
           total == Len(rtu.resp)
           avail == Min({ Len(rtu.line), exp }) - total
       IN  \E r \in { 0, 1, avail } :
             /\ r <= avail
             /\ LET resp == rtu.resp \o SubSeq(rtu.line, total + 1, total + r)
                    over == r = 0 \/ Len(resp) >= exp
                IN  rtu' = [rtu EXCEPT !.resp = resp,
                                       !.at = IF over THEN "returned" ELSE "receive",
                                       !.err = IF ~over \/ Len(resp) >= 5 THEN ESP_OK
                                               ELSE ESP_ERR_TIMEOUT,
                                       !.trace = IF @[Len(@)] = "receive" THEN @
                                                 ELSE Append(@, "receive")]
    /\ UNCHANGED NotRtu

\* Back in modbus_rtu_read_registers or modbus_rtu_write_registers.
RtuReturn ==
    /\ rtu.at = "returned"
    /\ rtu' = IF rtu.err # ESP_OK THEN [rtu EXCEPT !.at = "done"]
              ELSE IF rtu.fn = "read"
              THEN LET r == modbus_rtu_read_reply(rtu_cfg, rtu.req, rtu.count, rtu.resp,
                                                  rtu.out_words)
                   IN  [rtu EXCEPT !.at = "done", !.err = r.err, !.out_words = r.out_words]
              ELSE [rtu EXCEPT !.at = "done",
                               !.err = modbus_rtu_write_reply(rtu_cfg, rtu.req, rtu.resp)]
    /\ UNCHANGED NotRtu

NextRtu ==
    RtuCall \/ RtuSetTx \/ RtuWrite \/ RtuWaitTxDone \/ RtuSetRx \/ RtuReceive \/ RtuReturn

SpecRtu == InitRtu /\ [][NextRtu]_vars

\* The call is past the building of its request.
RequestBuilt == rtu.at \notin { "none", "call" } /\ rtu.req # <<>>

\* C24 (original statement): the request for 9 input registers at address 0
\* from slave 1 is 01 04 00 00 00 09 30 3A.
C24_ReadRequestBytes ==
    (RequestBuilt /\ rtu.fn = "read" /\ rtu.reg_type = D3NET_REG_INPUT
        /\ rtu.address = 0 /\ rtu.count = 9) =>
        rtu.req = <<1, 4, 0, 0, 0, 9, 48, 58>>

\* C24: a read request is the 8 bytes slave, 03 for holding or 04 for input
\* registers, address high and low, count high and low, and the CRC-16/MODBUS
\* of those six, low byte first; what goes out on the line is that request.
\* For 9 input registers at address 0 from slave 1 it is
\* 01 04 00 00 00 09 30 0C (the CRC is 0x0C30), and for 1 register
\* 01 04 00 00 00 01 31 CA.
C24_ReadRequestFrame ==
    (RequestBuilt /\ rtu.fn = "read") =>
        /\ Len(rtu.req) = 8
        /\ rtu.req[1] = rtu_cfg.slave_id
        /\ rtu.req[2] = (IF rtu.reg_type = D3NET_REG_HOLDING THEN 3 ELSE 4)
        /\ rtu.req[3] * 256 + rtu.req[4] = rtu.address
        /\ rtu.req[5] * 256 + rtu.req[6] = rtu.count
        /\ rtu.req[7] + 256 * rtu.req[8] = modbus_crc16(SubSeq(rtu.req, 1, 6))
        /\ \A k \in 1 .. 8 : rtu.req[k] \in 0 .. 255
        /\ rtu.sent \in { <<>>, rtu.req }
        /\ (rtu.at \in { "written", "tx_waited", "receive" }) => rtu.sent = rtu.req
        /\ (rtu.reg_type = D3NET_REG_INPUT /\ rtu.address = 0 /\ rtu.count = 9) =>
              rtu.req = <<1, 4, 0, 0, 0, 9, 48, 12>>
        /\ (rtu.reg_type = D3NET_REG_INPUT /\ rtu.address = 0 /\ rtu.count = 1) =>
              rtu.req = <<1, 4, 0, 0, 0, 1, 49, 202>>

\* The request for 9 input registers at address 0 is on the line.
C24_Witness ==
    /\ rtu.fn = "read" /\ rtu.reg_type = D3NET_REG_INPUT
    /\ rtu.address = 0 /\ rtu.count = 9
    /\ rtu.at = "written" /\ rtu.sent = rtu.req /\ Len(rtu.req) = 8

\* The call has returned to its caller after a transfer on the line.
RtuDone == rtu.at = "done" /\ rtu.trace # <<>>

\* The CRC trailer of a frame is the CRC of the bytes before it.
CrcMatches(frame) ==
    LET n == Len(frame)
    IN  frame[n - 1] + 256 * frame[n] = modbus_crc16(SubSeq(frame, 1, n - 2))

\* C25: a read returns ESP_OK only with all 5+2*count bytes received, the
\* configured slave id, the request's function code, byte count 2*count and
\* a matching CRC, and then hands out the words of the reply; a write returns
\* ESP_OK only with all 8 bytes received, echoing slave, function 0x10,
\* address and count, with a matching CRC; a call that received fewer bytes
\* than expected, such as a 5-byte exception reply, fails.
C25_SuccessNeedsFullValidReply ==
    RtuDone =>
        LET exp == rx_len_expected(rtu.fn, rtu.count)
            resp == rtu.resp
        IN  /\ (rtu.err = ESP_OK /\ rtu.fn = "read") =>
                  /\ Len(resp) = 5 + 2 * rtu.count
                  /\ resp = SubSeq(rtu.line, 1, exp)
                  /\ resp[1] = rtu_cfg.slave_id
                  /\ resp[2] = rtu.req[2]
                  /\ resp[3] = 2 * rtu.count
                  /\ CrcMatches(resp)
                  /\ rtu.out_words =
                        [k \in 1 .. rtu.count |-> resp[2 + 2 * k] * 256 + resp[3 + 2 * k]]
            /\ (rtu.err = ESP_OK /\ rtu.fn = "write") =>
                  /\ Len(resp) = 8
                  /\ resp = SubSeq(rtu.line, 1, exp)
                  /\ resp[1] = rtu_cfg.slave_id
                  /\ resp[2] = 16
                  /\ resp[3] * 256 + resp[4] = rtu.address
                  /\ resp[5] * 256 + resp[6] = rtu.count
                  /\ CrcMatches(resp)
            /\ Len(resp) < exp => rtu.err # ESP_OK

\* A write got its full echo and succeeded.
C25_Witness ==
    /\ RtuDone /\ rtu.fn = "write" /\ rtu.err = ESP_OK
    /\ Len(rtu.resp) = 8

\* The reply to a read came in whole, with the right slave, function and byte
\* count, and its CRC trailer is one bit away from the CRC of its bytes.
CrcOffByOneBit ==
    /\ RtuDone /\ rtu.fn = "read" /\ rtu.trace[Len(rtu.trace)] = "receive"
    /\ Len(rtu.resp) = 5 + 2 * rtu.count
    /\ rtu.resp[1] = rtu_cfg.slave_id
    /\ rtu.resp[2] = rtu.req[2]
    /\ rtu.resp[3] = 2 * rtu.count
    /\ LET n == Len(rtu.resp)
       IN  Xor16(rtu.resp[n - 1] + 256 * rtu.resp[n],
                 modbus_crc16(SubSeq(rtu.resp, 1, n - 2))) \in { 2 ^ b : b \in 0 .. 15 }

\* C26: a read whose reply is well-formed but for one bit of its CRC trailer
\* returns ESP_ERR_INVALID_CRC and leaves the caller's words, which are the
\* view the read targeted, as they were before the call; the pins are back in
\* receive mode.
C26_BadCrcChangesNothing ==
    CrcOffByOneBit =>
        /\ rtu.err = ESP_ERR_INVALID_CRC
        /\ rtu.out_words = rtu.before
        /\ rtu.pins = [de |-> 0, re |-> 0]

\* Such a reply to the 9-word read, whose data differ from the caller's words.
C26_Witness ==
    /\ CrcOffByOneBit /\ rtu.count = 9
    /\ [k \in 1 .. rtu.count |-> rtu.resp[2 + 2 * k] * 256 + rtu.resp[3 + 2 * k]]
          # rtu.before

\* The steps of rtu_transceive, in order, and its steps after a short write.
TransceiveOrder == <<"flush", "set_tx", "write", "wait_tx_done", "set_rx", "receive">>

ShortWriteOrder == <<"flush", "set_tx", "write", "set_rx">>

IsPrefix(a, b) == Len(a) <= Len(b) /\ a = SubSeq(b, 1, Len(a))

\* C27: the steps of rtu_transceive come in the order flush, DE/RE high,
\* write, wait for TX done, DE/RE low, receive (after a short write: flush,
\* DE/RE high, write, DE/RE low); DE and RE are high only from the drive high
\* to the drive low, so never while receiving; and when rtu_transceive has
\* returned, whatever the outcome, both are low.
C27_TransceiveOrderAndPins ==
    (rtu.at # "none" /\ rtu.trace # <<>>) =>
        /\ IsPrefix(rtu.trace, TransceiveOrder) \/ rtu.trace = ShortWriteOrder
        /\ (rtu.at = "receive" \/ rtu.trace[Len(rtu.trace)] = "receive") =>
              /\ rtu.pins = [de |-> 0, re |-> 0]
              /\ IsPrefix(SubSeq(TransceiveOrder, 1, 5), rtu.trace)
        /\ (rtu.at \in { "returned", "done" }) => rtu.pins = [de |-> 0, re |-> 0]
        /\ (rtu.pins # [de |-> 0, re |-> 0]) =>
              /\ rtu.pins = [de |-> 1, re |-> 1]
              /\ rtu.at \in { "sending", "written", "short_write", "tx_waited" }

\* rtu_transceive has returned after a short write.
C27_Witness ==
    /\ rtu.at = "returned" /\ rtu.err = ESP_FAIL
    /\ rtu.trace = ShortWriteOrder /\ rtu.pins = [de |-> 0, re |-> 0]

\* C28: an operation aimed at a unit that is not present (a command of the
\* host, read_error) fails with ESP_ERR_NOT_FOUND, makes no transport call and
\* leaves the whole gateway, last_op_ms and every unit record included, as it
\* was.
C28_AbsentUnitNotFound ==
    [][ (nops' # nops /\ op'.unit >= 0 /\ ~gw.units[op'.unit].present) =>
           /\ op'.err = ESP_ERR_NOT_FOUND
           /\ calls' = <<>>
           /\ gw' = gw ]_vars

\* ------------------------------------------------ the configuration store
\* Wi-Fi credentials the host sends.
WifiInputs == { [ssid |-> "home", password |-> ""], [ssid |-> "home", password |-> "secret"] }

\* Units the host registers and unregisters.
RegistryIndexes == { 0, 1 }

\* RTU parameters the host sends: app_main's with another slave id, and with
\* another speed.
RtuPosts ==
    { [tx_pin |-> 17, rx_pin |-> 16, de_pin |-> 4, re_pin |-> 5, baud_rate |-> 9600,
       data_bits |-> 8, stop_bits |-> 1, parity |-> 69, slave_id |-> 2, timeout_ms |-> 1200],
      [tx_pin |-> 17, rx_pin |-> 16, de_pin |-> 4, re_pin |-> 5, baud_rate |-> 19200,
       data_bits |-> 8, stop_bits |-> 1, parity |-> 78, slave_id |-> 1, timeout_ms |-> 500] }

\* reg_set
reg_set(cfg, index, on, unit_id) ==
    IF on
    THEN [cfg EXCEPT !.registered_mask = @ \cup { index },
                     !.registered_ids[index] = unit_id]
    ELSE [cfg EXCEPT !.registered_mask = @ \ { index },
                     !.registered_ids[index] = <<>>]

\* A handler changes app->config to cfg and saves it.
ChangeAndSave(cfg) ==
    \E r \in config_store_save(store.nvs, cfg) :
       store' = [store EXCEPT !.config = cfg, !.nvs = r.nvs, !.at = "running",
                              !.saved = IF r.err = ESP_OK THEN cfg ELSE @,
                              !.clean = r.err = ESP_OK]

Gateway == <<gw, clock, calls, op, pre, nops, first, prevCallAt, wrote, committed, acked,
             staged>>

\* handle_wifi_connect_post, the station connected.
WifiConnect ==
    /\ \E w \in WifiInputs :
         ChangeAndSave([store.config EXCEPT !.sta_ssid = w.ssid,
                                            !.sta_password = w.password,
                                            !.sta_configured = TRUE])
    /\ UNCHANGED <<Gateway, cx, rtu, telnet, gateway_lock, pc>>

\* The registry handler's "add", with gateway_lock taken and given.
RegistryAdd ==
    /\ gateway_lock = NoTask
    /\ \E i \in RegistryIndexes :
         /\ gw.units[i].present
         /\ ChangeAndSave(reg_set(store.config, i, TRUE, gw.units[i].unit_id))
    /\ UNCHANGED <<Gateway, cx, rtu, telnet, gateway_lock, pc>>

\* The registry handler's "remove".
RegistryRemove ==
    /\ \E i \in RegistryIndexes : ChangeAndSave(reg_set(store.config, i, FALSE, <<>>))
    /\ UNCHANGED <<Gateway, cx, rtu, telnet, gateway_lock, pc>>

\* esp_restart and app_main: everything in memory starts over, and the
\* configuration is what config_store_load finds in nvs.
Restarted(nvs, saved, clean) ==
    /\ gw' = d3net_gateway_init
    /\ clock' = BootMs
    /\ calls' = <<>>
    /\ op' = [name |-> "init", unit |-> -1, cmd |-> "", value |-> 0, now_ms |-> 0,
              err |-> ESP_OK]
    /\ pre' = ZeroUnit
    /\ nops' = 0
    /\ first' = TRUE
    /\ prevCallAt' = -1
    /\ wrote' = [i \in UnitIndexes |-> 0]
    /\ committed' = [i \in UnitIndexes |-> -1]
    /\ acked' = [i \in UnitIndexes |-> <<0, 0, 0>>]
    /\ staged' = [i \in UnitIndexes |-> FALSE]
    /\ store' = [config |-> config_store_load(nvs), nvs |-> nvs, saved |-> saved,
                 clean |-> clean, at |-> "loaded"]
    /\ UNCHANGED <<cx, rtu, telnet, gateway_lock, pc>>

\* handle_rtu_post: the parameters go into app->config.rtu_cfg, the
\* configuration is saved, and the device restarts.
RtuPost ==
    \E c \in RtuPosts :
       LET cfg == [store.config EXCEPT !.rtu_cfg = c]
       IN  \E r \in config_store_save(store.nvs, cfg) :
              Restarted(r.nvs, IF r.err = ESP_OK THEN cfg ELSE store.saved,
                        r.err = ESP_OK)

\* The device is switched off and on.
PowerCycle ==
    /\ store.at = "running"
    /\ Restarted(store.nvs, store.saved, store.clean)

\* poll_task's discovery after a boot, until one succeeds.
BootDiscover == first /\ Discover

NextConfig ==
    BootDiscover \/ WifiConnect \/ RegistryAdd \/ RegistryRemove \/ RtuPost \/ PowerCycle

SpecConfig == Init /\ [][NextConfig]_vars

\* C29: a configuration that was saved and then loaded, with no change in
\* between, is the saved one, the RTU parameters the host sent included; and
\* saving the configuration a second time leaves the store as the first save
\* left it.
C29_SaveLoadRoundTrip ==
    /\ (store.at = "loaded" /\ store.clean) => store.config = store.saved
    /\ LET once == nvs_written(store.nvs, store.config)
       IN  nvs_written(once, store.config) = once

\* ------------------------------------- commands and prepare_write together
NextWrite == Discover \/ PrepareWrite \/ Command

SpecWrite == Init /\ [][NextWrite]_vars

\* Positions in the last operation's calls of its reads and its writes.
ReadCalls == { k \in 1 .. Len(calls) : calls[k].fn = "read" }

WriteCalls == { k \in 1 .. Len(calls) : calls[k].fn = "write" }

\* C30: a command on unit i makes at most one holding read, before any of its
\* writes, and at most three writes; a prepare_write makes at most two calls,
\* a read and then a write; every call of either is on the 3 holding
\* registers at 2000 + 3*i.
C30_CommandCallOrder ==
    (op.name \in { "command", "prepare_write" }) =>
        /\ Cardinality(ReadCalls) <= 1
        /\ ReadCalls \subseteq { 1 }
        /\ Cardinality(WriteCalls) <= 3
        /\ Len(calls) <= 4
        /\ \A k \in 1 .. Len(calls) :
              /\ calls[k].reg_type = D3NET_REG_HOLDING
              /\ calls[k].address = 2000 + 3 * op.unit
              /\ calls[k].count = 3
        /\ op.name = "prepare_write" =>
              /\ Len(calls) <= 2
              /\ Len(calls) >= 1 => calls[1].fn = "read"

\* A command that read the holding registers, flushed them, and wrote twice
\* more.
C30_Witness ==
    /\ op.name = "command" /\ op.err = ESP_OK
    /\ Len(calls) = 4
    /\ calls[1].fn = "read"
    /\ WriteCalls = { 2, 3, 4 }

\* ------------------------------------------------------------- the throttle
\* C31: the suspension before a transport call never exceeds throttle_ms,
\* there is none when last_op_ms is 0 or when now - last_op_ms >= throttle_ms,
\* and after every transport call, successful or failed, last_op_ms holds the
\* time of that call (any instant from the call's start to its return).
C31_ThrottleBoundedAndStamped ==
    \A k \in 1 .. Len(calls) :
        LET stamp == IF k < Len(calls) THEN calls[k + 1].last ELSE gw.last_op_ms
        IN  /\ calls[k].wait >= 0
            /\ calls[k].wait <= gw.throttle_ms
            /\ (calls[k].last = 0 \/ op.now_ms - calls[k].last >= gw.throttle_ms)
                   => calls[k].wait = 0
            /\ stamp >= calls[k].at
            /\ stamp <= calls[k].at + CallMs

\* The two clauses about the suspension alone.
C31_SuspensionBounded ==
    \A k \in 1 .. Len(calls) :
        /\ calls[k].wait >= 0
        /\ calls[k].wait <= gw.throttle_ms
        /\ (calls[k].last = 0 \/ op.now_ms - calls[k].last >= gw.throttle_ms)
               => calls[k].wait = 0

\* ------------------------------------------------- the operator's commands
\* The commands that mutate the status view.
StatusSetters == { "power", "mode", "setpoint", "fan_speed", "fan_dir" }

\* C32: when set_power, set_mode, set_setpoint, set_fan_speed or set_fan_dir
\* returns an error, the unit's cached status view is the same as before the
\* command.
C32_FailedCommandKeepsStatus ==
    (/\ op.name = "command"
     /\ op.cmd \in StatusSetters
     /\ op.err # ESP_OK)
    => gw.units[op.unit].status = pre.status

\* Positions in the last operation's log of the holding writes whose
\* filter-reset field (bits 20..23) is not 0.
FilterResetWrites ==
    { k \in 1 .. Len(calls) :
        /\ calls[k].fn = "write"
        /\ d3net_uint_get(calls[k].words, D3NET_CNT_UNIT_HOLDING, 20, 4) # 0 }

\* C33: a holding write whose filter-reset field is not 0 is sent only during
\* a filter_reset command for that unit; set_power, set_mode, set_setpoint,
\* set_fan_speed and set_fan_dir send none, whatever failed before and whatever
\* the adapter's holding words carry in bits 20..23.
C33_ResetPulseOnlyFromFilterReset ==
    \A k \in FilterResetWrites :
        /\ op.name = "command"
        /\ op.cmd = "filter_reset"
        /\ calls[k].address = HoldingAddr(op.unit)

\* ------------------------------------------------------ shadow coherence
\* C34: with the gateway the only writer of the adapter's holding table and
\* writes that either fail without effect or succeed (acked[i] is then what the
\* adapter holds at 2000+3*i), in every state between operations a present
\* unit whose shadow has been read (last_read_ms # 0) and is not dirty has
\* shadow words equal to the adapter's.
C34_ShadowCoherence ==
    \A i \in UnitIndexes :
        (/\ gw.units[i].present
         /\ gw.units[i].holding.last_read_ms # 0
         /\ ~gw.units[i].holding.dirty)
        => gw.units[i].holding.words = acked[i]

\* A command changed the shadow of unit 0 and its writes all succeeded.
C34_Witness ==
    /\ op.name = "command"
    /\ op.unit = 0
    /\ gw.units[0].present
    /\ gw.units[0].holding.last_read_ms # 0
    /\ ~gw.units[0].holding.dirty
    /\ HoldingWriteOk(calls, 0) # {}
    /\ gw.units[0].holding.words # pre.holding.words
    /\ gw.units[0].holding.words = acked[0]

\* Positions in the last operation's log of the holding reads.
HoldingReads ==
    { k \in 1 .. Len(calls) :
        calls[k].fn = "read" /\ calls[k].reg_type = D3NET_REG_HOLDING }

\* C35: whenever prepare_write issues a holding read for a unit, the unit's
\* holding.dirty is false at that moment: a dirty shadow is never overwritten
\* with words read from the adapter.
C35_NoReloadOverDirty ==
    \A k \in HoldingReads : ~calls[k].dirty

\* A command found the shadow dirty after a failed write, more than
\* cache_write_s after the last read, and went on without reading.
C35_Witness ==
    /\ op.name = "command"
    /\ pre.present
    /\ pre.holding.dirty
    /\ pre.holding.last_read_ms # 0
    /\ op.now_ms - pre.holding.last_read_ms >= gw.cache_write_s * 1000
    /\ calls # <<>>
    /\ HoldingReads = {}

\* --------------------------------------------------------- failed writes
\* Positions in a call log of the holding writes for unit i that failed.
HoldingWriteFailed(log, i) ==
    { k \in 1 .. Len(log) : /\ log[k].fn = "write"
                            /\ log[k].address = HoldingAddr(i)
                            /\ log[k].err # ESP_OK }

\* What one operation does to the write stamps: a stamp changes only in an
\* operation that had a write for that unit succeed or in a discovery that
\* reset the records, and when d3net_holding_write_if_dirty returns from a
\* failed write the shadow is dirty as before the call and its stamp is the
\* one it had before the call.
FailedWriteChangesNothing ==
    \A i \in UnitIndexes :
        /\ gw'.units[i].holding.last_write_ms # gw.units[i].holding.last_write_ms
           => \/ (op'.unit = i /\ HoldingWriteOk(calls', i) # {})
              \/ (op'.name = "discover" /\ op'.err = ESP_OK)
        /\ op'.unit = i
           => \A k \in HoldingWriteFailed(calls', i) :
                 LET earlier == { j \in HoldingWriteOk(calls', i) : j < k }
                 IN  /\ calls'[k].dirty
                     /\ calls'[k].after.dirty
                     /\ calls'[k].after.last_write_ms =
                            IF earlier = {} THEN gw.units[i].holding.last_write_ms
                            ELSE calls'[Max(earlier)].after.last_write_ms
                     /\ k = Len(calls')
                     /\ gw'.units[i].holding.dirty
                     /\ gw'.units[i].holding.last_write_ms = calls'[k].after.last_write_ms

\* C36: a failed holding write changes neither holding.dirty nor
\* holding.last_write_ms; last_write_ms changes only on a write_fn success or
\* by the reset of a discovery, so the staged change stays pending.
C36_FailedWriteChangesNothing == [][FailedWriteChangesNothing]_vars

\* A command's write failed on a shadow that an earlier command had written:
\* the shadow is dirty and carries the earlier stamp.
C36_Witness ==
    /\ op.name = "command"
    /\ HoldingWriteFailed(calls, op.unit) # {}
    /\ pre.holding.last_write_ms # 0
    /\ gw.units[op.unit].holding.dirty
    /\ gw.units[op.unit].holding.last_write_ms = pre.holding.last_write_ms

\* ------------------------------------------------------- discovered records
\* The decimal group i/16+1, a dash, and i%16 as two digits.
UnitIdText(i) ==
    LET two == << <<"0", "0">>, <<"0", "1">>, <<"0", "2">>, <<"0", "3">>, <<"0", "4">>,
                  <<"0", "5">>, <<"0", "6">>, <<"0", "7">>, <<"0", "8">>, <<"0", "9">>,
                  <<"1", "0">>, <<"1", "1">>, <<"1", "2">>, <<"1", "3">>, <<"1", "4">>,
                  <<"1", "5">> >>
        group == <<"1", "2", "3", "4">>
    IN  <<group[(i \div 16) + 1], "-">> \o two[(i % 16) + 1]

\* C37: in every state between operations each record with present = true has
\* its connected bit set and its error bit clear in the stored system_status,
\* and once a discovery has succeeded every record i has index = i and the
\* unit_id "g-nn" with g = i/16+1 and nn = i%16 in two digits.
C37_PresentMatchesSystemStatus ==
    /\ \A i \in UnitIndexes :
           gw.units[i].present
           => /\ d3net_system_unit_connected(gw.system_status, i)
              /\ ~d3net_system_unit_error(gw.system_status, i)
    /\ ~first
       => \A i \in UnitIndexes :
              /\ gw.units[i].index = i
              /\ gw.units[i].unit_id = UnitIdText(i)

\* A second discovery has succeeded with a system status other than the
\* first's, and a unit is present.
C37_Witness ==
    /\ ~first
    /\ op.name = "discover"
    /\ op.err = ESP_OK
    /\ nops >= 2
    /\ \E i \in UnitIndexes : gw.units[i].present
    /\ \E i \in UnitIndexes :
           d3net_system_unit_connected(gw.system_status, i) /\ ~gw.units[i].present

\* ------------------------------------------------------------ the poll task
\* The step in which poll_task runs the body of its block.
PollTaskRuns == pc["poll_task"] = "locked" /\ pc'["poll_task"] # "locked"

\* The step in which poll_task's xSemaphoreTake runs out.
PollTaskSkips == pc["poll_task"] = "take" /\ pc'["poll_task"] = "idle"

\* What a step may do as far as poll_task is concerned.  The flag first is
\* true exactly as long as no discovery of poll_task has succeeded; the body
\* of the block is one operation, discover_units while the flag is true and
\* poll_status after, run while poll_task holds the lock and followed by
\* nothing but the give; poll_status has no other caller; a cycle whose take
\* runs out does no operation.
PollTaskDiscipline ==
    /\ first' = (first /\ ~(PollTaskRuns /\ op'.name = "discover" /\ op'.err = ESP_OK))
    /\ PollTaskRuns
       => /\ gateway_lock = "poll_task"
          /\ nops' = nops + 1
          /\ op'.name = (IF first THEN "discover" ELSE "poll")
          /\ pc'["poll_task"] = "give"
    /\ (nops' # nops /\ op'.name = "poll") => (PollTaskRuns /\ ~first)
    /\ (pc["poll_task"] # "locked" /\ pc'["poll_task"] # pc["poll_task"]) => nops' = nops
    /\ PollTaskSkips
       => /\ gateway_lock \notin { NoTask, "poll_task" }
          /\ gateway_lock' = gateway_lock
          /\ UNCHANGED Gateway

\* C38: poll_task calls discover_units on each cycle until one call succeeds
\* and only poll_status from then on, never poll_status before; a cycle is at
\* most one gateway operation under the lock, and none when the lock is not
\* obtained within the timeout.
C38_PollTaskDiscipline == [][PollTaskDiscipline]_vars

\* poll_task has swept the units after a discovery of its own succeeded, two
\* operations or more before, and is about to give the lock back.
C38_Witness ==
    /\ op.name = "poll"
    /\ ~first
    /\ nops >= 3
    /\ pc["poll_task"] = "give"
    /\ gateway_lock = "poll_task"

\* ------------------------------------------------------- the telnet log ring
\* telnet_server_logf and telnet_server_get_logs take no lock of their own.
\* poll_task and telnet_status_task call logf between the take and the give of
\* gateway_lock; the HTTP server's task calls logf after it has given the lock
\* back (handle_discover_post, handle_hvac_cmd_post) or without ever taking it
\* (the "remove" branch of handle_registry_post), and get_logs without the lock
\* (handle_logs_get).  Each access of s_telnet is one step.  MaxLogCalls is the
\* number of calls of the two functions in one behaviour.
MaxLogCalls == 2

\* The tasks whose calls of logf lie inside a gateway_lock block.
LockTasks == { "poll_task", "telnet_status_task" }

\* One step of telnet_server_logf by task t: s is s_telnet's ring and l the
\* call's position with its register copy of log_seq and its local slot.
\* vsnprintf and telnet_broadcast touch neither.
telnet_server_logf_step(s, l, t) ==
    CASE l.at = "idle" ->       \* entry, and the load of "s_telnet.log_seq++"
             [s |-> s, l |-> [l EXCEPT !.at = "seq_store", !.tmp = s.log_seq]]
      [] l.at = "seq_store" ->  \* the store of "s_telnet.log_seq++"
             [s |-> [s EXCEPT !.log_seq = l.tmp + 1], l |-> [l EXCEPT !.at = "slot"]]
      [] l.at = "slot" ->
             [s |-> s,
              l |-> [l EXCEPT !.at = "test",
                              !.slot = (s.log_head + s.log_count) % LogSlots]]
      [] l.at = "test" ->
             [s |-> s,
              l |-> [l EXCEPT !.at = IF s.log_count = LogSlots THEN "head" ELSE "count"]]
      [] l.at = "head" ->
             [s |-> [s EXCEPT !.log_head = (@ + 1) % LogSlots],
              l |-> [l EXCEPT !.at = "line"]]
      [] l.at = "count" ->
             [s |-> [s EXCEPT !.log_count = @ + 1], l |-> [l EXCEPT !.at = "line"]]
      [] l.at = "line" ->       \* memset and memcpy of the line
             [s |-> [s EXCEPT !.logs[l.slot].line = t], l |-> [l EXCEPT !.at = "seq"]]
      [] l.at = "seq" ->        \* logs[slot].seq = s_telnet.log_seq, and return
             [s |-> [s EXCEPT !.logs[l.slot].seq = s.log_seq],
              l |-> [l EXCEPT !.at = "idle"]]

RECURSIVE logf_run(_, _, _)
logf_run(s, l, t) ==
    LET r == telnet_server_logf_step(s, l, t)
    IN  IF r.l.at = "idle" THEN r.s ELSE logf_run(r.s, r.l, t)

\* telnet_server_logf run from entry to return with no other task in between.
telnet_server_logf(s, t) == logf_run(s, IdleLogf, t)

RECURSIVE LogsAfter(_)
\* The ring after n calls of logf one after the other.
LogsAfter(n) ==
    IF n = 0 THEN ZeroLogs
    ELSE LET s == LogsAfter(n - 1)
         IN  IF s.log_seq \in Nat THEN telnet_server_logf(s, "poll_task") ELSE s

\* Rings the tasks start from: empty, one short of full, and wrapped.
LogsBefore == { 0, 127, 130 }

\* "since" of GET /api/logs.
SinceInputs == { 0, 3 }

\* max_lines of handle_logs_get's call.
LogLinesMax == 64

\* One step of telnet_server_get_logs: the loop's test with the test of the
\* entry's seq, or the copy of the entry into out (its seq is read again).
telnet_server_get_logs_step(s, g) ==
    CASE g.at = "loop" ->
             IF g.i < s.log_count /\ Len(g.out) < LogLinesMax
             THEN LET idx == (s.log_head + g.i) % LogSlots
                  IN  IF s.logs[idx].seq <= g.since
                      THEN [g EXCEPT !.i = @ + 1]
                      ELSE [g EXCEPT !.at = "copy", !.idx = idx]
             ELSE [g EXCEPT !.at = "returned"]
      [] g.at = "copy" ->
             [g EXCEPT !.at = "loop", !.i = @ + 1, !.out = Append(@, s.logs[g.idx].seq)]

NotTelnet == <<gw, clock, calls, op, pre, nops, first, prevCallAt, wrote, committed, acked,
               staged, gateway_lock, pc, cx, rtu, store>>

InitLog ==
    /\ InitGateway /\ InitTasks /\ cx = NoCodec /\ rtu = NoRtu /\ store = BootStore
    /\ telnet \in { [BootTelnet EXCEPT !.s = LogsAfter(n)] : n \in LogsBefore }

\* A task enters telnet_server_logf.  The HTTP server's task runs one handler
\* at a time; poll_task and telnet_status_task hold gateway_lock around their
\* calls, so neither is inside logf while the other is.
LogfCall(t) ==
    /\ telnet.ncalls < MaxLogCalls
    /\ telnet.logf[t].at = "idle"
    /\ t \in LockTasks => \A u \in LockTasks : telnet.logf[u].at = "idle"
    /\ t = "httpd" => telnet.get.at \in { "idle", "returned" }
    /\ LET r == telnet_server_logf_step(telnet.s, telnet.logf[t], t)
       IN  telnet' = [telnet EXCEPT !.s = r.s, !.logf[t] = r.l, !.ncalls = @ + 1]
    /\ UNCHANGED NotTelnet

LogfStep(t) ==
    /\ telnet.logf[t].at # "idle"
    /\ LET r == telnet_server_logf_step(telnet.s, telnet.logf[t], t)
       IN  telnet' = [telnet EXCEPT !.s = r.s, !.logf[t] = r.l]
    /\ UNCHANGED NotTelnet

\* handle_logs_get calls telnet_server_get_logs(since, lines, 64).
GetLogsCall ==
    /\ telnet.ncalls < MaxLogCalls
    /\ telnet.get.at = "idle"
    /\ telnet.logf["httpd"].at = "idle"
    /\ \E since \in SinceInputs :
         telnet' = [telnet EXCEPT !.get = [IdleGetLogs EXCEPT !.at = "loop", !.since = since],
                                  !.ncalls = @ + 1]
    /\ UNCHANGED NotTelnet

GetLogsStep ==
    /\ telnet.get.at \in { "loop", "copy" }
    /\ telnet' = [telnet EXCEPT !.get = telnet_server_get_logs_step(telnet.s, telnet.get)]
    /\ UNCHANGED NotTelnet

NextLog ==
    \/ \E t \in Tasks : LogfCall(t)
    \/ \E t \in Tasks : LogfStep(t)
    \/ GetLogsCall
    \/ GetLogsStep

SpecLog == InitLog /\ [][NextLog]_vars

\* No call of logf is under way.
LogfQuiet == \A t \in Tasks : telnet.logf[t].at = "idle"

\* The seq of the a-th entry from log_head.
SeqFromHead(a) == telnet.s.logs[(telnet.s.log_head + a) % LogSlots].seq

\* C39: under concurrent calls of telnet_server_logf by poll_task,
\* telnet_status_task and the HTTP handlers and of telnet_server_get_logs,
\* log_count never exceeds 128, the stored entries carry pairwise distinct
\* sequence numbers that increase from log_head onwards, and get_logs returns
\* only entries with seq > since, in increasing order.
C39_LogRingConsistent ==
    /\ telnet.s.log_count <= LogSlots
    /\ LogfQuiet
       => \A a, b \in 0 .. (telnet.s.log_count - 1) :
              a < b => SeqFromHead(a) < SeqFromHead(b)
    /\ telnet.get.at = "returned"
       => /\ \A k \in 1 .. Len(telnet.get.out) : telnet.get.out[k] > telnet.get.since
          /\ \A j, k \in 1 .. Len(telnet.get.out) :
                 j < k => telnet.get.out[j] < telnet.get.out[k]

\* The three parts of C39 on their own.
C39_CountBounded == telnet.s.log_count <= LogSlots

C39_StoredIncreasing ==
    LogfQuiet
    => \A a, b \in 0 .. (telnet.s.log_count - 1) : a < b => SeqFromHead(a) < SeqFromHead(b)

C39_ReturnedIncreasing ==
    telnet.get.at = "returned"
    => /\ \A k \in 1 .. Len(telnet.get.out) : telnet.get.out[k] > telnet.get.since
       /\ \A j, k \in 1 .. Len(telnet.get.out) :
              j < k => telnet.get.out[j] < telnet.get.out[k]

FrameDone == cx.fn = "frame" /\ cx.stage = "out"

\* The positions start .. start+length-1 of the call.
InField(p) == cx.arg.start <= p /\ p <= cx.arg.start + cx.arg.length - 1

\* Every bit of the buffer outside the field is as it was before the set.
FrameKept == \A p \in 0 .. BufferBits - 1 : ~InField(p) => (WordBit(cx.res.words, p) <=> WordBit(cx.arg.words, p))

\* The positions of the field at or beyond 16*word_count read as false.
BeyondReadsFalse ==
    \A p \in cx.arg.start .. cx.arg.start + cx.arg.length - 1 :
        (BufferBits <= p /\ p <= 65535) => ~d3net_bit_get(cx.res.words, BufferWords, p)

\* C40: uint_set(start, len, v) and sint_set(start, len, v) change no bit of
\* the word array outside positions start .. start+len-1; positions at or
\* beyond 16*word_count are never written (the array keeps its word_count
\* words) and read as false, so a field that runs past the end of the array
\* is written only in its in-range part.
C40_SetStaysInsideField ==
    FrameDone =>
        /\ Len(cx.res.words) = BufferWords
        /\ FrameKept
        /\ BeyondReadsFalse

\* The same for the fields whose last position start+len-1 is a uint16_t
\* position: there the set stays inside the field.
C40_SetStaysInsideUnwrappedField ==
    (FrameDone /\ cx.arg.start + cx.arg.length <= 65536) =>
        /\ Len(cx.res.words) = BufferWords
        /\ FrameKept
        /\ BeyondReadsFalse

\* A field that runs past the end of the array was written in its in-range
\* part only.
C40_StraddlingFieldWritten ==
    /\ FrameDone
    /\ cx.arg.start < BufferBits /\ BufferBits < cx.arg.start + cx.arg.length
    /\ cx.res.words # cx.arg.words
    /\ FrameKept

====
